---- MODULE Spec2Model ----
(***************************************************************************)
(* Dyadic array operators of src/algorithm/dyadic/mod.rs.                  *)
(*                                                                         *)
(* An array is a record [shape, data]: shape is the sequence of axis       *)
(* lengths, data the flat row-major buffer.  Sequences are 1-based here,   *)
(* the source's slices 0-based; every index below says which it is.        *)
(* An operator's result is a record [st, arr, out]: st is "ok", "err"      *)
(* (the Err the source returns) or "panic" (an index out of range, an      *)
(* unwrap of None, an arithmetic underflow), arr is the array left in      *)
(* place or returned, out a second result where the operator has one.      *)
(***************************************************************************)
EXTENDS Integers, Sequences, FiniteSets, TLC

(***************************************************************************)
(* Bounds of the model.                                                    *)
(***************************************************************************)
\* largest number of elements of an array drawn as an input or built
MaxElems == 4
\* largest rank of an array drawn as an input
MaxRank == 2
\* largest number of elements of a needle of the search operators
MaxNeedle == 2
\* number of threads of the pool that runs matrix multiply's work items
MaxWorkers == 2

\* the elements: the operators move elements and compare them for equality,
\* and do nothing else with them, so two values show every behaviour
Elems == {0, 1}
\* env.scalar_fill::<T>(): <<>> when the context has no fill value (Err),
\* <<v>> when it has the fill value v (Ok)
NoFill == <<>>
FillOpts == {NoFill, <<0>>}
has_fill(fill) == Len(fill) > 0

(***************************************************************************)
(* Sequences.                                                              *)
(***************************************************************************)
Min(a, b) == IF a < b THEN a ELSE b
Max(a, b) == IF a > b THEN a ELSE b
Abs(n) == IF n < 0 THEN -n ELSE n

\* s[..n] of the source, n clamped as Iterator::take does
Take(s, n) == SubSeq(s, 1, Min(n, Len(s)))
\* s[n..] of the source, n clamped as Iterator::skip does
Skip(s, n) == SubSeq(s, Min(n, Len(s)) + 1, Len(s))
Rev(s) == [i \in 1..Len(s) |-> s[Len(s) + 1 - i]]
\* n copies of the element x
Fill(x, n) == [i \in 1..n |-> x]
\* the buffer s repeated whole n times
Tile(s, n) == [i \in 1..(n * Len(s)) |-> s[((i - 1) % Len(s)) + 1]]

RECURSIVE Product(_)
Product(s) == IF Len(s) = 0 THEN 1 ELSE s[1] * Product(Tail(s))

RECURSIVE Sum(_)
Sum(s) == IF Len(s) = 0 THEN 0 ELSE s[1] + Sum(Tail(s))

RECURSIVE Flatten(_)
Flatten(ss) == IF Len(ss) = 0 THEN <<>> ELSE ss[1] \o Flatten(Tail(ss))

(***************************************************************************)
(* Arrays (crate::array, declared outside this file).                      *)
(***************************************************************************)
Arr(sh, d) == [shape |-> sh, data |-> d]
rank(a) == Len(a.shape)
element_count(a) == Len(a.data)
row_count(a) == IF Len(a.shape) = 0 THEN 1 ELSE a.shape[1]
row_len(a) == Product(Skip(a.shape, 1))
\* row i (0-based) of the flat buffer
row_slice(a, i) == SubSeq(a.data, i * row_len(a) + 1, (i + 1) * row_len(a))
\* the rows as arrays of the row shape
rows(a) == [i \in 1..row_count(a) |-> Arr(Skip(a.shape, 1), row_slice(a, i - 1))]
\* Array::from(EcoVec): the list of the elements of a flat vector
from_vec(d) == Arr(<<Len(d)>>, d)
\* what validate_shape asserts
ValidShape(a) == Len(a.data) = Product(a.shape)

Ok(a) == [st |-> "ok", arr |-> a, out |-> <<>>]
Ok2(a, o) == [st |-> "ok", arr |-> a, out |-> o]
Err(a) == [st |-> "err", arr |-> a, out |-> <<>>]
Panic(a) == [st |-> "panic", arr |-> a, out |-> <<>>]

\* Array::reverse: the rows in reverse order
reverse(a) ==
    LET n == row_count(a)
        l == row_len(a)
    IN  IF rank(a) = 0 THEN a
        ELSE Arr(a.shape, [i \in 1..Len(a.data) |->
                a.data[(n - 1 - ((i - 1) \div l)) * l + ((i - 1) % l) + 1]])

\* Array::reverse_depth: inside every block below the first depth axes, the
\* rows (axis depth, 0-based) in reverse order
reverse_depth(a, depth) ==
    LET d == Min(depth, rank(a))
        row_shape == Skip(a.shape, d)
        chunk_size == Product(row_shape)
    IN  IF Len(row_shape) = 0 \/ chunk_size = 0 THEN a
        ELSE LET n == row_shape[1]
                 l == chunk_size \div n
             IN  Arr(a.shape, [i \in 1..Len(a.data) |->
                    LET c == (i - 1) \div chunk_size
                        r == ((i - 1) % chunk_size) \div l
                        e == (i - 1) % l
                    IN  a.data[c * chunk_size + (n - 1 - r) * l + e + 1]])

\* validate_size: the element count of a shape; its limit lies far above the
\* bounds of the model, so it never fails here
validate_size(sh) == Product(sh)

(***************************************************************************)
(* Reshape and rerank.                                                     *)
(***************************************************************************)
\* a dimension specifier, Result<isize, bool>: Ok(n) or Err(rev)
Dim(n) == [inf |-> FALSE, n |-> n]
Inf(rev) == [inf |-> TRUE, n |-> IF rev THEN -1 ELSE 1]
\* the Ok values of a list of specifiers (Iterator::flatten)
Ints(dims) ==
    LET RECURSIVE F(_)
        F(s) == IF Len(s) = 0 THEN <<>>
                ELSE IF s[1].inf THEN F(Tail(s)) ELSE <<s[1].n>> \o F(Tail(s))
    IN  F(dims)
InfCount(dims) == Cardinality({i \in 1..Len(dims) : dims[i].inf})

\* `x as usize` of an isize: a negative value wraps to the top of the range
UsizeRange == 2^30
AsUsize(x) == IF x < 0 THEN UsizeRange + x ELSE x

\* the closure derive_len: ceil with a fill value, floor without; the
\* quotient is taken in f32, which is exact for lengths below 2^24
derive_len(data_len, other_len, fill_present) ==
    IF fill_present THEN (data_len + other_len - 1) \div other_len
    ELSE data_len \div other_len

\* [st, axes]: the signed axes of the target shape
derive_shape(shape, dims, fill_present) ==
    LET inf_count == InfCount(dims)
        total == Product(shape)
    IN  IF inf_count = 0 THEN [st |-> "ok", axes |-> Ints(dims)]
        ELSE IF inf_count = 1 THEN
            IF dims[1].inf THEN
                LET rev_mul == dims[1].n
                    shape_non_leading_len == AsUsize(Product(Ints(Tail(dims))))
                IN  IF shape_non_leading_len = 0 THEN [st |-> "err", axes |-> <<>>]
                    ELSE [st |-> "ok", axes |->
                            <<rev_mul * derive_len(total, shape_non_leading_len, fill_present)>>
                                \o Ints(Tail(dims))]
            ELSE IF dims[Len(dims)].inf THEN
                LET rev_mul == dims[Len(dims)].n
                    axes == Ints(dims)
                    shape_non_trailing_len == Abs(Product(axes))
                IN  IF shape_non_trailing_len = 0 THEN [st |-> "err", axes |-> <<>>]
                    ELSE [st |-> "ok", axes |-> Append(axes,
                            rev_mul * derive_len(total, shape_non_trailing_len, fill_present))]
            ELSE
                LET inf_index == CHOOSE i \in 1..Len(dims) : dims[i].inf
                    front == SubSeq(dims, 1, inf_index - 1)
                    back == SubSeq(dims, inf_index + 1, Len(dims))
                    rev_mul == dims[inf_index].n
                    front_len == Abs(Product(Ints(front)))
                    back_len == Abs(Product(Ints(back)))
                IN  IF front_len = 0 \/ back_len = 0 THEN [st |-> "err", axes |-> <<>>]
                    ELSE [st |-> "ok", axes |-> Ints(front)
                            \o <<rev_mul * derive_len(total, front_len * back_len, fill_present)>>
                            \o Ints(back)]
        ELSE [st |-> "err", axes |-> <<>>]

\* a faulty growth that ends on the last whole copy of the buffer and
\* repeats the last element from there
reshape_data_whole(a, shape, target_len, fill) ==
    IF Len(a.data) < target_len THEN
        IF has_fill(fill) THEN
            [st |-> "ok", data |-> a.data \o Fill(fill[1], target_len - Len(a.data))]
        ELSE IF Len(a.data) = 0 THEN
            IF \A i \in 1..Len(shape) : shape[i] # 0
            THEN [st |-> "err", data |-> a.data]
            ELSE [st |-> "ok", data |-> a.data]
        ELSE
            LET whole == Tile(a.data, target_len \div Len(a.data))
            IN  [st |-> "ok",
                 data |-> whole \o Fill(a.data[Len(a.data)], target_len - Len(whole))]
    ELSE [st |-> "ok", data |-> SubSeq(a.data, 1, target_len)]

\* the data of Array::reshape once the target length is known
reshape_data(a, shape, target_len, fill) ==
    IF Len(a.data) < target_len THEN
        IF has_fill(fill) THEN
            [st |-> "ok", data |-> a.data \o Fill(fill[1], target_len - Len(a.data))]
        ELSE IF Len(a.data) = 0 THEN
            IF \A i \in 1..Len(shape) : shape[i] # 0
            THEN [st |-> "err", data |-> a.data]
            ELSE [st |-> "ok", data |-> a.data]
        ELSE IF rank(a) = 0 THEN
            [st |-> "ok", data |-> Fill(a.data[1], target_len)]
        ELSE
            LET start == Len(a.data)
                additional == target_len - start
            IN  [st |-> "ok", data |-> a.data \o Tile(a.data, additional \div start)
                                        \o SubSeq(a.data, 1, additional % start)]
    ELSE [st |-> "ok", data |-> SubSeq(a.data, 1, target_len)]

\* reverse_depth(s) for every reversed axis s, in ascending order
RECURSIVE reverse_axes(_, _)
reverse_axes(a, axes) ==
    IF Len(axes) = 0 THEN a
    ELSE reverse_axes(reverse_depth(a, axes[1]), Tail(axes))

\* Array::reshape (list form)
reshape(a, dims, fill) ==
    LET d == derive_shape(a.shape, dims, has_fill(fill))
    IN  IF d.st # "ok" THEN Err(a)
        ELSE
            LET axes == d.axes
                \* 0-based indices of the negative axes, ascending
                reversed_axes == LET RECURSIVE F(_)
                                     F(i) == IF i > Len(axes) THEN <<>>
                                             ELSE IF axes[i] < 0 THEN <<i - 1>> \o F(i + 1)
                                             ELSE F(i + 1)
                                 IN  F(1)
                shape == [i \in 1..Len(axes) |-> Abs(axes[i])]
                target_len == validate_size(shape)
                nd == reshape_data(a, shape, target_len, fill)
            IN  IF nd.st # "ok" THEN Err(a)
                ELSE Ok(reverse_axes(Arr(shape, nd.data), reversed_axes))

\* Array::reshape_scalar_integer
reshape_scalar_integer(a, count) ==
    IF count = 0 THEN Arr(<<0>> \o a.shape, <<>>)
    ELSE Arr(<<count>> \o a.shape, Tile(a.data, count))

\* Array::reshape_scalar; count is a specifier
reshape_scalar(a, count) ==
    IF ~count.inf THEN
        reshape_scalar_integer(IF count.n < 0 THEN reverse(a) ELSE a, Abs(count.n))
    ELSE IF count.n < 0 THEN reverse(a) ELSE a

\* a faulty undo_reshape that sets the old shape without comparing the
\* element counts
undo_reshape_unchecked(a, old_shape) ==
    IF old_shape.scalar THEN Err(a) ELSE Ok(Arr(old_shape.v, a.data))

\* a faulty undo_reshape that compares the element counts and leaves the
\* shape as it is
undo_reshape_kept(a, old_shape) ==
    IF old_shape.scalar THEN Err(a)
    ELSE IF Product(old_shape.v) = Product(a.shape) THEN Ok(a)
    ELSE Err(a)

\* Value::undo_reshape; old_shape is [scalar, v]: a scalar natural or a list
undo_reshape(a, old_shape) ==
    IF old_shape.scalar THEN Err(a)
    ELSE IF Product(old_shape.v) = Product(a.shape) THEN Ok(Arr(old_shape.v, a.data))
    ELSE Err(a)

\* Value::rerank
rerank(a, irank) ==
    LET shape == a.shape
        r == Abs(irank)
    IN  IF irank >= 0 THEN
            IF r >= Len(shape) THEN Ok(Arr(Fill(1, r - Len(shape) + 1) \o shape, a.data))
            ELSE LET mid == Len(shape) - r
                 IN  Ok(Arr(<<Product(SubSeq(shape, 1, mid))>> \o Skip(shape, mid), a.data))
        ELSE IF r > Len(shape) THEN Err(a)
        ELSE Ok(Arr(<<Product(SubSeq(shape, 1, r))>> \o Skip(shape, r), a.data))

\* a faulty undo_rerank that always drops exactly the first axis
undo_rerank_drop_one(a, irank, orig_shape) ==
    IF rank(a) = 0 THEN Ok(a)
    ELSE
        LET r == Abs(irank)
            new_shape ==
                IF irank >= 0
                THEN Take(orig_shape, Max(Len(orig_shape) - r, 0)) \o Skip(a.shape, 1)
                ELSE Take(orig_shape, r) \o Skip(a.shape, 1)
        IN  IF validate_size(new_shape) # element_count(a) THEN Ok(a)
            ELSE Ok(Arr(new_shape, a.data))

\* a faulty undo_rerank that refuses a shape of another element count
undo_rerank_strict(a, irank, orig_shape) ==
    IF rank(a) = 0 THEN Ok(a)
    ELSE
        LET r == Abs(irank)
            new_shape ==
                IF irank >= 0
                THEN Take(orig_shape, Max(Len(orig_shape) - r, 0))
                        \o Skip(a.shape, Max(Max(r + 1 - Len(orig_shape), 0), 1))
                ELSE Take(orig_shape, r) \o Skip(a.shape, 1)
        IN  IF validate_size(new_shape) # element_count(a) THEN Err(a)
            ELSE Ok(Arr(new_shape, a.data))

\* Value::undo_rerank (for an array that is not boxed)
undo_rerank(a, irank, orig_shape) ==
    IF rank(a) = 0 THEN Ok(a)
    ELSE
        LET r == Abs(irank)
            new_shape ==
                IF irank >= 0
                THEN Take(orig_shape, Max(Len(orig_shape) - r, 0))
                        \o Skip(a.shape, Max(Max(r + 1 - Len(orig_shape), 0), 1))
                ELSE Take(orig_shape, r) \o Skip(a.shape, 1)
        IN  IF validate_size(new_shape) # element_count(a) THEN Ok(a)
            ELSE Ok(Arr(new_shape, a.data))

(***************************************************************************)
(* Keep.  A count is a rational [num, den], den >= 1 (the source's f64);   *)
(* the whole number n is [num |-> n, den |-> 1].                           *)
(***************************************************************************)
Whole(n) == [num |-> n, den |-> 1]
IsWhole(c) == c.num % c.den = 0
IsNatural(c) == c.num >= 0 /\ IsWhole(c)
\* `n as usize` of a whole count
AsCount(c) == c.num \div c.den
\* f64::round of x = num / den >= 0 (half away from zero)
RoundDiv(num, den) == (2 * num + den) \div (2 * den)

\* Array::from_row_arrays for rows of one shape: no row gives the default
\* (empty rank-1) array
from_row_arrays(rs) ==
    IF Len(rs) = 0 THEN Arr(<<0>>, <<>>)
    ELSE Arr(<<Len(rs)>> \o rs[1].shape, Flatten([i \in 1..Len(rs) |-> rs[i].data]))

\* Array::keep_scalar_integer
keep_scalar_integer(a, count) ==
    IF rank(a) = 0 THEN Ok(Arr(<<count>>, Fill(a.data[1], count)))
    ELSE IF count = 0 THEN Ok(Arr(<<0>> \o Tail(a.shape), <<>>))
    ELSE IF count = 1 THEN Ok(a)
    ELSE Ok(Arr(<<a.shape[1] * count>> \o Tail(a.shape),
                Flatten([i \in 1..(row_count(a) * count) |->
                            row_slice(a, (i - 1) \div count)])))

\* Array::keep_scalar_real
keep_scalar_real(a, count) ==
    LET abs_num == Abs(count.num)
    IN  IF IsWhole(count) /\ count.num >= 0
        THEN keep_scalar_integer(a, abs_num \div count.den)
        ELSE
            LET new_row_count == RoundDiv(abs_num * row_count(a), count.den)
                l == row_len(a)
                \* t = k / abs_count = k * den / abs_num, 0-based k
                src_row(k) == (k * count.den) \div abs_num
                oob == \E k \in 0..(new_row_count - 1) : (src_row(k) + 1) * l > Len(a.data)
                new_data == Flatten([i \in 1..new_row_count |-> row_slice(a, src_row(i - 1))])
                data == IF count.num < 0 THEN Rev(new_data) ELSE new_data
            IN  IF oob THEN Panic(a)
                ELSE IF rank(a) = 0 THEN Ok(Arr(<<new_row_count>>, data))
                ELSE Ok(Arr(<<new_row_count>> \o Tail(a.shape), data))

\* env.num_array_fill(): [some |-> FALSE] (Err) or [some |-> TRUE, arr |-> a]
NoArrayFill == [some |-> FALSE, arr |-> Arr(<<>>, <<>>)]
ArrayFill(a) == [some |-> TRUE, arr |-> a]

\* pad_keep_counts: [st, counts]
pad_keep_counts(counts, len, afill) ==
    IF Len(counts) = len THEN [st |-> "ok", counts |-> counts]
    ELSE IF Len(counts) < len THEN
        IF afill.some THEN
            LET fill == afill.arr
            IN  IF \E i \in 1..Len(fill.data) : ~IsNatural(fill.data[i])
                THEN [st |-> "err", counts |-> counts]
                ELSE IF rank(fill) = 0
                THEN [st |-> "ok", counts |-> counts \o Fill(fill.data[1], len - Len(counts))]
                ELSE IF rank(fill) = 1
                THEN [st |-> "ok", counts |-> counts \o
                        (IF Len(fill.data) = 0 THEN <<>>
                         ELSE [i \in 1..(len - Len(counts)) |->
                                fill.data[((i - 1) % Len(fill.data)) + 1]])]
                ELSE [st |-> "err", counts |-> counts]
        ELSE IF Len(counts) = 0 THEN [st |-> "err", counts |-> counts]
        ELSE LET RECURSIVE Ext(_, _)
                 \* amount.push(amount[i % amount.len()]) with the growing length
                 Ext(amount, i) ==
                    IF i >= len - Len(counts) THEN amount
                    ELSE Ext(Append(amount, amount[(i % Len(amount)) + 1]), i + 1)
             IN  [st |-> "ok", counts |-> Ext(counts, 0)]
    ELSE [st |-> "ok", counts |-> SubSeq(counts, 1, len)]

\* a faulty keep that takes a row it keeps once, whatever its count
keep_rows_once(a, counts) ==
    LET l == row_len(a)
        chunks == Len(a.data) \div l
        n == Min(Len(counts), chunks)
    IN  Flatten([i \in 1..n |->
            Tile(SubSeq(a.data, (i - 1) * l + 1, i * l), Min(AsCount(counts[i]), 1))])

\* a faulty keep that stops one row early
keep_rows_short(a, counts) ==
    LET l == row_len(a)
        chunks == Len(a.data) \div l
        n == Min(Len(counts), chunks) - 1
    IN  Flatten([i \in 1..n |-> Tile(SubSeq(a.data, (i - 1) * l + 1, i * l), AsCount(counts[i]))])

\* the rows of keep_list: one row of the chunks per count (zip), each
\* repeated its count times
keep_rows(a, counts) ==
    LET l == row_len(a)
        chunks == Len(a.data) \div l
        n == Min(Len(counts), chunks)
    IN  Flatten([i \in 1..n |-> Tile(SubSeq(a.data, (i - 1) * l + 1, i * l), AsCount(counts[i]))])

\* Array::keep_list
keep_list(a, counts_in, afill) ==
    IF \E i \in 1..Len(counts_in) : ~IsNatural(counts_in[i]) THEN Err(a)
    ELSE
        LET p == pad_keep_counts(counts_in, row_count(a), afill)
            counts == p.counts
        IN  IF p.st # "ok" THEN Err(a)
            ELSE IF rank(a) = 0 THEN
                IF Len(counts) # 1 THEN Err(a)
                ELSE Ok(from_vec(Fill(a.data[1], AsCount(counts[1]))))
            ELSE
                LET all_bools == \A i \in 1..Len(counts) : AsCount(counts[i]) \in {0, 1}
                    true_count == Cardinality({i \in 1..Len(counts) : AsCount(counts[i]) = 1})
                    l == row_len(a)
                IN  IF all_bools THEN
                        Ok(Arr(<<true_count>> \o Tail(a.shape),
                               IF l > 0 THEN keep_rows(a, counts) ELSE <<>>))
                    ELSE
                        LET new_len == IF l > 0
                                THEN Sum([i \in 1..Min(Len(counts), Len(a.data) \div l) |->
                                            AsCount(counts[i])])
                                ELSE Sum([i \in 1..Len(counts) |-> AsCount(counts[i])])
                        IN  Ok(Arr(<<new_len>> \o Tail(a.shape),
                                   IF l > 0 THEN keep_rows(a, counts) ELSE <<>>))

\* a faulty unkeep that pushes no count for the run still open at the end
unkeep_open_run(a) ==
    IF rank(a) = 0 THEN Err(a)
    ELSE
        LET l == row_len(a)
            n == row_count(a)
            Row(d, r) == SubSeq(d, r * l + 1, (r + 1) * l)
            Put(d, dest, r) == [i \in 1..Len(d) |->
                    IF (i - 1) \div l = dest /\ l > 0 THEN d[r * l + ((i - 1) % l) + 1] ELSE d[i]]
            RECURSIVE Scan(_, _, _, _, _)
            Scan(d, counts, dest, rep, r) ==
                IF r >= n THEN [data |-> d, counts |-> counts, dest |-> dest, rep |-> rep]
                ELSE IF Row(d, rep) # Row(d, r)
                THEN Scan(Put(d, dest + 1, r), Append(counts, Whole(r - rep)), dest + 1, r, r + 1)
                ELSE Scan(d, counts, dest, rep, r + 1)
            s == Scan(a.data, <<>>, 0, 0, 1)
        IN  Ok2(Arr(<<s.dest>> \o Tail(a.shape), SubSeq(s.data, 1, s.dest * l)), s.counts)

\* Array::unkeep: [st, arr, out] with out the counts
unkeep(a) ==
    IF rank(a) = 0 THEN Err(a)
    ELSE
        LET l == row_len(a)
            n == row_count(a)
            Row(d, r) == SubSeq(d, r * l + 1, (r + 1) * l)
            \* data[dest * row_len + i] = data[r * row_len + i] for every i
            Put(d, dest, r) == [i \in 1..Len(d) |->
                    IF (i - 1) \div l = dest /\ l > 0 THEN d[r * l + ((i - 1) % l) + 1] ELSE d[i]]
            RECURSIVE Scan(_, _, _, _, _)
            \* the loop for r in 1..row_count, state [data, counts, dest, rep]
            Scan(d, counts, dest, rep, r) ==
                IF r >= n THEN [data |-> d, counts |-> counts, dest |-> dest, rep |-> rep]
                ELSE IF Row(d, rep) # Row(d, r)
                THEN Scan(Put(d, dest + 1, r), Append(counts, Whole(r - rep)), dest + 1, r, r + 1)
                ELSE Scan(d, counts, dest, rep, r + 1)
            s == Scan(a.data, <<>>, 0, 0, 1)
            counts == IF s.rep < n THEN Append(s.counts, Whole(n - s.rep)) ELSE s.counts
            dest == IF s.rep < n THEN s.dest + 1 ELSE s.dest
        IN  Ok2(Arr(<<dest>> \o Tail(a.shape), SubSeq(s.data, 1, dest * l)), counts)

\* a faulty undo_keep that pulls the rows of the kept array from its end
undo_keep_backwards(a, counts_in, into, afill) ==
    LET p == pad_keep_counts(counts_in, row_count(into), afill)
        counts == p.counts
    IN  IF p.st # "ok" THEN Err(a)
        ELSE IF \E i \in 1..Len(counts) : counts[i].num > counts[i].den THEN Err(a)
        ELSE
            LET transformed == rows(a)
                into_rows == rows(into)
                n == Min(Len(counts), Len(into_rows))
                \* rows pulled from transformed before position i (1-based)
                pulled(i) == Cardinality({j \in 1..(i - 1) : counts[j].num # 0})
                bad == \E i \in 1..n :
                        /\ counts[i].num # 0
                        /\ \/ pulled(i) + 1 > Len(transformed)
                           \/ transformed[pulled(i) + 1].shape # into_rows[i].shape
            IN  IF bad THEN Err(a)
                ELSE Ok(from_row_arrays([i \in 1..n |->
                        IF counts[i].num = 0 THEN into_rows[i]
                        ELSE transformed[Len(transformed) - pulled(i)]]))

\* Array::undo_keep: a is the kept (transformed) array, into the original
undo_keep(a, counts_in, into, afill) ==
    LET p == pad_keep_counts(counts_in, row_count(into), afill)
        counts == p.counts
    IN  IF p.st # "ok" THEN Err(a)
        ELSE IF \E i \in 1..Len(counts) : counts[i].num > counts[i].den THEN Err(a)
        ELSE
            LET transformed == rows(a)
                into_rows == rows(into)
                n == Min(Len(counts), Len(into_rows))
                \* rows pulled from transformed before position i (1-based)
                pulled(i) == Cardinality({j \in 1..(i - 1) : counts[j].num # 0})
                bad == \E i \in 1..n :
                        /\ counts[i].num # 0
                        /\ \/ pulled(i) + 1 > Len(transformed)
                           \/ transformed[pulled(i) + 1].shape # into_rows[i].shape
            IN  IF bad THEN Err(a)
                ELSE Ok(from_row_arrays([i \in 1..n |->
                        IF counts[i].num = 0 THEN into_rows[i]
                        ELSE transformed[pulled(i) + 1]]))

(***************************************************************************)
(* depth_slices and rotate.                                                *)
(***************************************************************************)
\* a faulty remainder: of the magnitude, as unsigned_abs would give
RemMagnitude(x, n) == Abs(x) % n

\* isize::rem_euclid for a positive modulus
RemEuclid(x, n) == x % n

\* a faulty rotate that turns every axis the other way
RECURSIVE rotate_right(_, _, _)
rotate_right(by, shape, data) ==
    IF Len(by) = 0 \/ Len(shape) = 0 THEN data
    ELSE IF shape[1] = 0 THEN data
    ELSE
        LET row_count_ == shape[1]
            row_len_ == Product(Tail(shape))
            mid == (row_count_ - by[1]) % row_count_
            left == Rev(SubSeq(data, 1, mid * row_len_))
            right == Rev(SubSeq(data, mid * row_len_ + 1, Len(data)))
            whole == Rev(left \o right)
            index == Tail(by)
            sh == Tail(shape)
        IN  IF Len(index) = 0 \/ Len(sh) = 0 THEN whole
            ELSE Flatten([c \in 1..(Len(whole) \div row_len_) |->
                    rotate_right(index, sh, SubSeq(whole, (c - 1) * row_len_ + 1, c * row_len_))])

\* fn rotate: the data of one slice rotated by the offsets `by`
RECURSIVE rotate(_, _, _)
rotate(by, shape, data) ==
    IF Len(by) = 0 \/ Len(shape) = 0 THEN data
    ELSE IF shape[1] = 0 THEN data
    ELSE
        LET row_count_ == shape[1]
            row_len_ == Product(Tail(shape))
            mid == RemEuclid(row_count_ + by[1], row_count_)
            left == Rev(SubSeq(data, 1, mid * row_len_))
            right == Rev(SubSeq(data, mid * row_len_ + 1, Len(data)))
            whole == Rev(left \o right)
            index == Tail(by)
            sh == Tail(shape)
        IN  IF Len(index) = 0 \/ Len(sh) = 0 THEN whole
            ELSE Flatten([c \in 1..(Len(whole) \div row_len_) |->
                    rotate(index, sh, SubSeq(whole, (c - 1) * row_len_ + 1, c * row_len_))])

\* a faulty fill_shift that fills along the first axis only
fill_shift_leading(by, shape, data, fill) ==
    IF Len(by) = 0 \/ Len(shape) = 0 THEN data
    ELSE IF shape[1] = 0 THEN data
    ELSE
        LET offset == by[1]
            abs_offset == Abs(offset) * Product(Tail(shape))
            data_len == Len(data)
        IN  IF offset = 0 THEN data
            ELSE IF offset > 0
            THEN [i \in 1..data_len |->
                    IF i - 1 >= Max(data_len - abs_offset, 0) THEN fill ELSE data[i]]
            ELSE [i \in 1..data_len |->
                    IF i - 1 < Min(abs_offset, data_len) THEN fill ELSE data[i]]

\* fn fill_shift
RECURSIVE fill_shift(_, _, _, _)
fill_shift(by, shape, data, fill) ==
    IF Len(by) = 0 \/ Len(shape) = 0 THEN data
    ELSE IF shape[1] = 0 THEN data
    ELSE
        LET offset == by[1]
            row_len_ == Product(Tail(shape))
            abs_offset == Abs(offset) * row_len_
            data_len == Len(data)
            shifted ==
                IF offset = 0 THEN data
                ELSE IF offset > 0
                THEN [i \in 1..data_len |->
                        IF i - 1 >= Max(data_len - abs_offset, 0) THEN fill ELSE data[i]]
                ELSE [i \in 1..data_len |->
                        IF i - 1 < Min(abs_offset, data_len) THEN fill ELSE data[i]]
            index == Tail(by)
            sh == Tail(shape)
        IN  IF Len(index) = 0 \/ Len(sh) = 0 THEN shifted
            ELSE Flatten([c \in 1..(Len(shifted) \div row_len_) |->
                    fill_shift(index, sh,
                               SubSeq(shifted, (c - 1) * row_len_ + 1, c * row_len_), fill)])

\* a faulty closure that holds the number of offsets against the length of
\* the first axis
rotate_slice_extent(fill, ash, a, bsh, b) ==
    IF Len(bsh) > 1 THEN [st |-> "err", data |-> a]
    ELSE IF Len(ash) > 0 /\ Len(b) > ash[1] THEN [st |-> "err", data |-> a]
    ELSE LET r == rotate(b, ash, a)
         IN  [st |-> "ok", data |-> IF has_fill(fill) THEN fill_shift(b, ash, r, fill[1]) ELSE r]

\* the closure Array::rotate_depth hands to depth_slices
rotate_slice(fill, ash, a, bsh, b) ==
    IF Len(bsh) > 1 THEN [st |-> "err", data |-> a]
    ELSE IF Len(b) > Len(ash) THEN [st |-> "err", data |-> a]
    ELSE LET r == rotate(b, ash, a)
         IN  [st |-> "ok", data |-> IF has_fill(fill) THEN fill_shift(b, ash, r, fill[1]) ELSE r]

\* a_prefix.iter().zip(b_prefix).all(|(a, b)| a == b)
PrefixesAgree(ash, ad, bsh, bd) ==
    \A i \in 1..Min(ad, bd) : ash[i] = bsh[i]

\* the loop `while shape.starts_with(&[1]) { if depth == 0 { break }; ... }`
RECURSIVE StripOnes(_, _)
StripOnes(shape, depth) ==
    IF Len(shape) > 0 /\ shape[1] = 1 /\ depth # 0
    THEN StripOnes(Tail(shape), depth - 1)
    ELSE [shape |-> shape, depth |-> depth]

\* the loop that deepens the shallower operand x by the leading dims of
\* the other: for each dim, last first, every row of x is repeated dim times
\* and dim becomes the new leading axis
RECURSIVE Deepen(_, _)
Deepen(x, dims) ==
    IF Len(dims) = 0 THEN x
    ELSE LET d == dims[Len(dims)]
             nx == Arr(<<d>> \o x.shape,
                       Flatten([i \in 1..(row_count(x) * d) |-> row_slice(x, (i - 1) \div d)]))
         IN  Deepen(nx, SubSeq(dims, 1, Len(dims) - 1))

\* the final loop of depth_slices over the zipped chunks.  f stands for the
\* closure by what it captures: the one closure this file hands over is
\* that of rotate_depth, which captures the fill.  The chunks before a
\* failing one stay written.
RECURSIVE ZipChunks(_, _, _, _, _, _, _, _)
ZipChunks(f, ash, adata, al, bsh, bdata, bl, i) ==
    IF (i + 1) * al > Len(adata) \/ (i + 1) * bl > Len(bdata)
    THEN [st |-> "ok", data |-> adata]
    ELSE LET r == rotate_slice(f, ash, SubSeq(adata, i * al + 1, (i + 1) * al),
                               bsh, SubSeq(bdata, i * bl + 1, (i + 1) * bl))
             nd == SubSeq(adata, 1, i * al) \o r.data \o SubSeq(adata, (i + 1) * al + 1, Len(adata))
         IN  IF r.st # "ok" THEN [st |-> r.st, data |-> nd]
             ELSE ZipChunks(f, ash, nd, al, bsh, bdata, bl, i + 1)

\* Array::depth_slices: [st, arr] with arr the array a as it is left
depth_slices(a, b, a_depth_in, b_depth_in, f) ==
    LET a_depth0 == Min(a_depth_in, rank(a))
        b_depth0 == Min(b_depth_in, rank(b))
        agree0 == PrefixesAgree(a.shape, a_depth0, b.shape, b_depth0)
        sa == IF agree0 THEN [shape |-> a.shape, depth |-> a_depth0]
              ELSE StripOnes(a.shape, a_depth0)
        sb == IF agree0 THEN [shape |-> b.shape, depth |-> b_depth0]
              ELSE StripOnes(b.shape, b_depth0)
        a1 == Arr(sa.shape, a.data)
        b1 == Arr(sb.shape, b.data)
    IN  IF ~PrefixesAgree(sa.shape, sa.depth, sb.shape, sb.depth) THEN Err(a1)
        ELSE
            LET a2 == IF sa.depth < sb.depth
                      THEN Deepen(a1, SubSeq(b1.shape, 1, sb.depth - sa.depth))
                      ELSE a1
                b2 == IF sa.depth > sb.depth
                      THEN Deepen(b1, SubSeq(a1.shape, 1, sa.depth - sb.depth))
                      ELSE b1
                depth == Max(sa.depth, sb.depth)
                a_row_shape == Skip(a2.shape, depth)
                b_row_shape == Skip(b2.shape, depth)
                a_row_len == Product(a_row_shape)
                b_row_len == Product(b_row_shape)
            IN  IF a_row_len = 0 \/ b_row_len = 0 THEN Ok(a2)
                ELSE LET z == ZipChunks(f, a_row_shape, a2.data, a_row_len,
                                        b_row_shape, b2.data, b_row_len, 0)
                     IN  [st |-> z.st, arr |-> Arr(a2.shape, z.data), out |-> <<>>]

\* Array::rotate_depth, behind the row_count test of Value::rotate_depth
rotate_depth(a, by, depth, by_depth, fill) ==
    IF row_count(by) = 0 THEN Ok(a)
    ELSE depth_slices(a, by, depth, by_depth, fill)

(***************************************************************************)
(* Index walks.                                                            *)
(***************************************************************************)
\* a faulty step that wraps an index one before its limit
OdoNextShort(idx, lim) ==
    LET RECURSIVE F(_, _)
        F(ix, i) == IF i = 0 THEN [done |-> TRUE, idx |-> ix]
                    ELSE IF ix[i] >= lim[i] - 1 THEN F([ix EXCEPT ![i] = 0], i - 1)
                    ELSE [done |-> FALSE, idx |-> [ix EXCEPT ![i] = ix[i] + 1]]
    IN  F(idx, Len(idx))

\* the step `for i in (0..idx.len()).rev() { if idx[i] == lim[i] { idx[i] = 0 }
\* else { idx[i] += 1; continue 'outer } } break`: the next index below the
\* limits lim (inclusive), or done
OdoNext(idx, lim) ==
    LET RECURSIVE F(_, _)
        F(ix, i) == IF i = 0 THEN [done |-> TRUE, idx |-> ix]
                    ELSE IF ix[i] = lim[i] THEN F([ix EXCEPT ![i] = 0], i - 1)
                    ELSE [done |-> FALSE, idx |-> [ix EXCEPT ![i] = ix[i] + 1]]
    IN  F(idx, Len(idx))

\* every index the walk visits from idx on, in the order visited
RECURSIVE OdoFrom(_, _)
OdoFrom(idx, lim) ==
    LET n == OdoNext(idx, lim)
    IN  IF n.done THEN <<idx>> ELSE <<idx>> \o OdoFrom(n.idx, lim)
OdoAll(lim) == OdoFrom([i \in 1..Len(lim) |-> 0], lim)

\* a faulty index sum that never widens the stride
StrideIndexNarrow(idx, shape, unit) ==
    LET RECURSIVE F(_, _, _)
        F(i, stride, acc) == IF i = 0 THEN acc
                             ELSE F(i - 1, stride, acc + idx[i] * stride)
    IN  F(Min(Len(idx), Len(shape)), unit, 0)

\* sum of idx[i] * stride over the axes of shape, last axis fastest; the
\* innermost stride is unit
StrideIndex(idx, shape, unit) ==
    LET RECURSIVE F(_, _, _)
        F(i, stride, acc) == IF i = 0 THEN acc
                             ELSE F(i - 1, stride * shape[i], acc + idx[i] * stride)
    IN  F(Min(Len(idx), Len(shape)), unit, 0)

\* Shape::flat_to_dims
flat_to_dims(shape, flat) ==
    LET RECURSIVE F(_, _, _)
        F(i, fl, acc) == IF i = 0 THEN acc
                         ELSE F(i - 1, fl \div shape[i], <<fl % shape[i]>> \o acc)
    IN  F(Len(shape), flat, <<>>)

\* Shape::dims_to_flat: -1 for None (an index outside its axis)
dims_to_flat(shape, index) ==
    LET n == Min(Len(shape), Len(index))
        RECURSIVE F(_, _)
        F(i, flat) == IF i > n THEN flat
                      ELSE IF index[i] >= shape[i] THEN -1
                      ELSE F(i + 1, flat * shape[i] + index[i])
    IN  F(1, 0)

\* Array::fill_to_shape: the array padded with fill (or cut) to the target
\* shape, every element keeping its index
fill_to_shape(a, target, fill) ==
    LET sh == Fill(1, Max(Len(target) - rank(a), 0)) \o a.shape
    IN  IF sh = target THEN Arr(sh, a.data)
        ELSE Arr(target, [i \in 1..Product(target) |->
                LET k == dims_to_flat(sh, flat_to_dims(target, i - 1))
                IN  IF k >= 0 THEN a.data[k + 1] ELSE fill])

(***************************************************************************)
(* Windows.                                                                *)
(***************************************************************************)
\* Array::filled_windows (overflow checks on: a usize below zero panics)
filled_windows(a, isize_spec, fill) ==
    LET n == Min(Len(isize_spec), rank(a))
        true_size == [i \in 1..n |-> IF isize_spec[i] >= 0 THEN isize_spec[i]
                                      ELSE a.shape[i] + 1 + isize_spec[i]]
        adders == [i \in 1..n |-> IF true_size[i] % 2 = 0 THEN 1 ELSE 0]
        new_shape == [i \in 1..n |-> a.shape[i] + adders[i]] \o true_size \o Skip(a.shape, n)
        item_len == Product(Skip(a.shape, n))
        index_lim == [i \in 1..n |-> a.shape[i] - 1 + adders[i]]
        curr_lim == [i \in 1..n |-> true_size[i] - 1]
    IN  IF \E i \in 1..n : true_size[i] < 0 \/ curr_lim[i] < 0 \/ a.shape[i] = 0
        THEN Panic(a)
        ELSE
            LET Item(index, tracking) ==
                    LET offset_curr == [i \in 1..n |->
                                            index[i] - (true_size[i] \div 2) + tracking[i]]
                        out_of_bounds == \E i \in 1..n :
                                            offset_curr[i] < 0 \/ offset_curr[i] >= a.shape[i]
                        src_index == StrideIndex(offset_curr, a.shape, item_len)
                    IN  IF out_of_bounds THEN Fill(fill, item_len)
                        ELSE SubSeq(a.data, src_index + 1, src_index + item_len)
                idxs == OdoAll(index_lim)
                currs == OdoAll(curr_lim)
                written == Flatten([w \in 1..Len(idxs) |->
                            Flatten([c \in 1..Len(currs) |-> Item(idxs[w], currs[c])])])
                dst_len == Product(new_shape)
            IN  \* dst is made of dst_len fills and written from index 0 on
                IF Len(written) > dst_len THEN Panic(a)
                ELSE Ok(Arr(new_shape, written \o Fill(fill, dst_len - Len(written))))

\* Array::windows
windows(a, isize_spec, fill) ==
    IF \E i \in 1..Len(isize_spec) : isize_spec[i] = 0 THEN Err(a)
    ELSE IF Len(isize_spec) > rank(a) THEN Err(a)
    ELSE IF has_fill(fill) THEN filled_windows(a, isize_spec, fill[1])
    ELSE
        LET n == Len(isize_spec)
            size_spec == [i \in 1..n |-> IF isize_spec[i] >= 0 THEN isize_spec[i]
                                          ELSE a.shape[i] + 1 + isize_spec[i]]
            new_shape == [i \in 1..n |-> Max((a.shape[i] + 1) - size_spec[i], 0)]
                            \o [i \in 1..n |-> Max(size_spec[i], 0)]
                            \o Skip(a.shape, n)
        IN  IF \E i \in 1..n : size_spec[i] <= 0 \/ size_spec[i] > a.shape[i]
            THEN Ok(Arr(new_shape, <<>>))
            ELSE
                LET true_size == size_spec \o Skip(a.shape, n)
                    corner_lim == [i \in 1..rank(a) |-> a.shape[i] - true_size[i]]
                    curr_lim == [i \in 1..rank(a) |-> true_size[i] - 1]
                IN  \* EcoVec::from_elem(self.data[0].clone(), ..) indexes the data
                    IF Len(a.data) = 0 THEN Panic(a)
                    ELSE
                        LET corners == OdoAll(corner_lim)
                            currs == OdoAll(curr_lim)
                            Src(corner, curr) ==
                                StrideIndex([i \in 1..rank(a) |-> corner[i] + curr[i]], a.shape, 1)
                            dst_len == Product(new_shape)
                            out_of_range ==
                                \/ Len(corners) * Len(currs) > dst_len
                                \/ \E w \in 1..Len(corners) : \E c \in 1..Len(currs) :
                                        Src(corners[w], currs[c]) >= Len(a.data)
                            written == Flatten([w \in 1..Len(corners) |->
                                        [c \in 1..Len(currs) |->
                                            a.data[Src(corners[w], currs[c]) + 1]]])
                        IN  \* dst is made of dst_len copies of data[0] and written
                            \* from index 0 on
                            IF out_of_range THEN Panic(a)
                            ELSE Ok(Arr(new_shape,
                                        written \o Fill(a.data[1], dst_len - Len(written))))

(***************************************************************************)
(* Find and mask.                                                          *)
(***************************************************************************)
\* Array::find: searched_for is the needle, searched the haystack
find(searched_for, searched_in, fill) ==
    LET any_dim_greater ==
            \E i \in 1..Min(rank(searched_for), rank(searched_in)) :
                searched_for.shape[rank(searched_for) + 1 - i]
                    > searched_in.shape[rank(searched_in) + 1 - i]
        must_fill == rank(searched_for) > rank(searched_in) \/ any_dim_greater
    IN  IF must_fill /\ ~has_fill(fill)
        THEN Ok(Arr(searched_in.shape, Fill(0, element_count(searched_in))))
        ELSE IF must_fill /\ rank(searched_in) = 0 THEN Panic(searched_in)
        ELSE
            LET searched ==
                    IF must_fill
                    THEN fill_to_shape(searched_in,
                            <<row_count(searched_for)>> \o Tail(searched_in.shape), fill[1])
                    ELSE searched_in
                searched_for_shape ==
                    Fill(1, Max(rank(searched) - rank(searched_for), 0)) \o searched_for.shape
                r == rank(searched)
            IN  \* zip stops at the shorter shape; s + 1 - f must not go below zero
                IF \E i \in 1..r : searched.shape[i] + 1 < searched_for_shape[i]
                THEN Panic(searched_in)
                ELSE
                    LET temp_output_shape ==
                            [i \in 1..r |-> searched.shape[i] + 1 - searched_for_shape[i]]
                        corner_lim == [i \in 1..r |-> searched.shape[i] - searched_for_shape[i]]
                        curr_lim == [i \in 1..r |-> searched_for_shape[i] - 1]
                        RECURSIVE Items(_, _)
                        \* the loop 'items at one corner: 1 when every item agrees
                        Items(corner, curr) ==
                            LET searched_index ==
                                    StrideIndex([i \in 1..r |-> corner[i] + curr[i]],
                                                searched.shape, 1)
                                search_for_index == StrideIndex(curr, searched_for_shape, 1)
                                same == /\ search_for_index < Len(searched_for.data)
                                        /\ searched.data[searched_index + 1]
                                                = searched_for.data[search_for_index + 1]
                                n == OdoNext(curr, curr_lim)
                            IN  IF ~same THEN 0
                                ELSE IF n.done THEN 1
                                ELSE Items(corner, n.idx)
                        RECURSIVE Corners(_)
                        \* the loop 'windows: one entry per corner visited
                        Corners(corner) ==
                            LET n == OdoNext(corner, corner_lim)
                                e == Items(corner, [i \in 1..r |-> 0])
                            IN  IF n.done THEN <<e>> ELSE <<e>> \o Corners(n.idx)
                        written == IF \A i \in 1..r : searched.shape[i] > 0
                                   THEN Corners([i \in 1..r |-> 0])
                                   ELSE <<>>
                        out_len == Product(temp_output_shape)
                    IN  \* a corner limit below zero: the walk leaves the output buffer
                        IF (\A i \in 1..r : searched.shape[i] > 0)
                                /\ (\E i \in 1..r : corner_lim[i] < 0)
                        THEN Panic(searched_in)
                        ELSE IF Len(written) > out_len THEN Panic(searched_in)
                        \* &searched.shape[..searched_for_shape.len()]
                        ELSE IF Len(searched_for_shape) > r THEN Panic(searched_in)
                        ELSE Ok(fill_to_shape(
                                Arr(temp_output_shape, written \o Fill(0, out_len - Len(written))),
                                searched.shape, 0))

\* a faulty mask: a cell that carries a label already is taken again
mask_reusing_cells(needle, haystack) ==
    IF rank(needle) > rank(haystack) THEN Err(haystack)
    ELSE IF \E i \in 1..rank(needle) :
                needle.shape[rank(needle) + 1 - i] > haystack.shape[rank(haystack) + 1 - i]
    THEN Ok(Arr(haystack.shape, Fill(0, element_count(haystack))))
    ELSE
        LET needle_shape == Fill(1, rank(haystack) - rank(needle)) \o needle.shape
            needle_elems == element_count(needle)
            \* the flat haystack index of needle element j at position curr, or -1
            Cell(curr, j) ==
                LET offset == flat_to_dims(needle_shape, j)
                IN  dims_to_flat(haystack.shape, [i \in 1..Len(curr) |-> curr[i] + offset[i]])
            RECURSIVE Scan(_, _, _)
            \* the loop for i in 0..res.len(), state res and match_num
            Scan(i, res, match_num) ==
                IF i >= Len(res) THEN res
                ELSE
                    LET curr == flat_to_dims(haystack.shape, i)
                        matches == \A j \in 0..(needle_elems - 1) :
                                    LET k == Cell(curr, j)
                                    IN  /\ k >= 0
                                        /\ needle.data[j + 1] = haystack.data[k + 1]
                    IN  IF matches
                        THEN Scan(i + 1,
                                  [k \in 1..Len(res) |->
                                    IF \E j \in 0..(needle_elems - 1) : Cell(curr, j) = k - 1
                                    THEN match_num + 1 ELSE res[k]],
                                  match_num + 1)
                        ELSE Scan(i + 1, res, match_num)
        IN  Ok(Arr(haystack.shape, Scan(0, Fill(0, element_count(haystack)), 0)))

\* Array::mask: [st, arr] with arr the labels over the haystack
mask(needle, haystack) ==
    IF rank(needle) > rank(haystack) THEN Err(haystack)
    ELSE IF \E i \in 1..rank(needle) :
                needle.shape[rank(needle) + 1 - i] > haystack.shape[rank(haystack) + 1 - i]
    THEN Ok(Arr(haystack.shape, Fill(0, element_count(haystack))))
    ELSE
        LET needle_shape == Fill(1, rank(haystack) - rank(needle)) \o needle.shape
            needle_elems == element_count(needle)
            \* the flat haystack index of needle element j at position curr, or -1
            Cell(curr, j) ==
                LET offset == flat_to_dims(needle_shape, j)
                IN  dims_to_flat(haystack.shape, [i \in 1..Len(curr) |-> curr[i] + offset[i]])
            RECURSIVE Scan(_, _, _)
            \* the loop for i in 0..res.len(), state res and match_num
            Scan(i, res, match_num) ==
                IF i >= Len(res) THEN res
                ELSE
                    LET curr == flat_to_dims(haystack.shape, i)
                        matches == \A j \in 0..(needle_elems - 1) :
                                    LET k == Cell(curr, j)
                                    IN  /\ k >= 0
                                        /\ ~(res[k + 1] > 0)
                                        /\ needle.data[j + 1] = haystack.data[k + 1]
                    IN  IF matches
                        THEN Scan(i + 1,
                                  [k \in 1..Len(res) |->
                                    IF \E j \in 0..(needle_elems - 1) : Cell(curr, j) = k - 1
                                    THEN match_num + 1 ELSE res[k]],
                                  match_num + 1)
                        ELSE Scan(i + 1, res, match_num)
        IN  Ok(Arr(haystack.shape, Scan(0, Fill(0, element_count(haystack)), 0)))

(***************************************************************************)
(* Member and index of.                                                    *)
(***************************************************************************)
\* haystack.shape.ends_with(&needle.shape)
EndsWith(sh, suffix) ==
    /\ Len(suffix) <= Len(sh)
    /\ \A i \in 1..Len(suffix) : sh[Len(sh) - Len(suffix) + i] = suffix[i]

\* the results of the calls made for the rows, joined by from_row_arrays;
\* the operator `?` returns the first Err
JoinRows(results) ==
    IF \E i \in 1..Len(results) : results[i].st # "ok"
    THEN Err(Arr(<<0>>, <<>>))
    ELSE Ok(from_row_arrays([i \in 1..Len(results) |-> results[i].arr]))

\* Array::member: elems is the needle, of the haystack
RECURSIVE member(_, _)
member(elems, of) ==
    IF rank(elems) = rank(of) THEN
        LET members == {row_slice(of, i - 1) : i \in 1..row_count(of)}
        IN  Ok(Arr(Take(elems.shape, 1),
                   [i \in 1..row_count(elems) |->
                        IF row_slice(elems, i - 1) \in members THEN 1 ELSE 0]))
    ELSE IF rank(elems) > rank(of) THEN
        JoinRows([i \in 1..row_count(elems) |-> member(rows(elems)[i], of)])
    ELSE IF ~EndsWith(of.shape, elems.shape) THEN Err(elems)
    ELSE IF rank(of) - rank(elems) = 1 THEN
        Ok(Arr(<<>>, <<IF \E i \in 1..row_count(of) : rows(of)[i] = elems THEN 1 ELSE 0>>))
    ELSE JoinRows([i \in 1..row_count(of) |-> member(elems, rows(of)[i])])

\* a faulty answer for a row that is not there: the last position
NotFoundLast(haystack) == row_count(haystack) - 1

\* unwrap_or(haystack.row_count()): the answer for a row that is not there
NotFound(haystack) == row_count(haystack)

\* a faulty lookup: the last row slice of haystack that equals row
FirstRowLast(haystack, row) ==
    LET hits == {i \in 0..(row_count(haystack) - 1) : row_slice(haystack, i) = row}
    IN  IF hits = {} THEN NotFound(haystack)
        ELSE CHOOSE i \in hits : \A j \in hits : i >= j

\* the index (0-based) of the first row slice of haystack that equals row,
\* or NotFound when there is none
FirstRow(haystack, row) ==
    LET hits == {i \in 0..(row_count(haystack) - 1) : row_slice(haystack, i) = row}
    IN  IF hits = {} THEN NotFound(haystack)
        ELSE CHOOSE i \in hits : \A j \in hits : i <= j

\* Array::index_of
RECURSIVE index_of(_, _)
index_of(needle, haystack) ==
    IF rank(needle) = rank(haystack) THEN
        Ok(Arr(Take(needle.shape, 1),
               [i \in 1..row_count(needle) |->
                    FirstRow(haystack, row_slice(needle, i - 1))]))
    ELSE IF rank(needle) > rank(haystack) THEN
        JoinRows([i \in 1..row_count(needle) |-> index_of(rows(needle)[i], haystack)])
    ELSE IF ~EndsWith(haystack.shape, needle.shape) THEN Err(needle)
    ELSE IF rank(haystack) - rank(needle) = 1 THEN
        Ok(Arr(<<>>, <<FirstRow(haystack, needle.data)>>))
    ELSE JoinRows([i \in 1..row_count(haystack) |-> index_of(needle, rows(haystack)[i])])

(***************************************************************************)
(* Progressive index of.                                                   *)
(***************************************************************************)
\* hasher.finish() after hashing the elements d: equal element sequences
\* have equal hashes, and unequal ones may collide
finish(d) == Sum(d) % 2

\* a faulty lookup at equal rank: the set `used` is not consulted
progressive_rows_reusing(searched_for, searched_in) ==
    Arr(Take(searched_for.shape, 1),
        [e \in 1..row_count(searched_for) |->
            LET hits == {i \in 0..(row_count(searched_in) - 1) :
                            rows(searched_in)[i + 1] = rows(searched_for)[e]}
            IN  IF hits = {} THEN row_count(searched_in)
                ELSE CHOOSE i \in hits : \A j \in hits : i <= j])

\* Array::progressive_index_of at equal rank: the loops over the rows of
\* searched_for, with the set `used` of (hash, index) pairs
progressive_rows(searched_for, searched_in) ==
    LET \* whether row e of searched_for equals row i (0-based) of searched_in:
        \* element against element at rank 1, row against row otherwise
        Eq(e, i) == IF rank(searched_for) = 1
                    THEN searched_for.data[e] = searched_in.data[i + 1]
                    ELSE rows(searched_for)[e] = rows(searched_in)[i + 1]
        hash(e) == IF rank(searched_for) = 1
                   THEN finish(<<searched_for.data[e]>>)
                   ELSE finish(rows(searched_for)[e].data)
        \* the rows looked through: the elements at rank 1
        n == IF rank(searched_for) = 1 THEN Len(searched_in.data)
             ELSE row_count(searched_in)
        RECURSIVE Elems_(_, _, _)
        \* the loop over the rows e.. of searched_for, state used and result_data
        Elems_(e, used, result_data) ==
            IF e > row_count(searched_for) THEN result_data
            ELSE
                LET hits == {i \in 0..(n - 1) : Eq(e, i) /\ <<hash(e), i>> \notin used}
                IN  IF hits = {}
                    THEN Elems_(e + 1, used,
                                Append(result_data, row_count(searched_in)))
                    ELSE LET i == CHOOSE i \in hits : \A j \in hits : i <= j
                         IN  Elems_(e + 1, used \cup {<<hash(e), i>>},
                                    Append(result_data, i))
        result_data == Elems_(1, {}, <<>>)
    IN  IF rank(searched_for) = 1 THEN from_vec(result_data)
        ELSE Arr(Take(searched_for.shape, 1), result_data)

\* Array::progressive_index_of
RECURSIVE progressive_index_of(_, _)
progressive_index_of(searched_for, searched_in) ==
    IF rank(searched_for) = rank(searched_in) THEN
        Ok(progressive_rows(searched_for, searched_in))
    ELSE IF rank(searched_for) > rank(searched_in) THEN
        JoinRows([i \in 1..row_count(searched_for) |->
                    progressive_index_of(rows(searched_for)[i], searched_in)])
    ELSE IF rank(searched_in) - rank(searched_for) = 1 THEN
        LET hits == IF rank(searched_for) = 0
                    THEN {i \in 0..(Len(searched_in.data) - 1) :
                            searched_in.data[i + 1] = searched_for.data[1]}
                    ELSE {i \in 0..(row_count(searched_in) - 1) :
                            rows(searched_in)[i + 1] = searched_for}
        IN  Ok(Arr(<<>>, <<IF hits = {} THEN row_count(searched_in)
                           ELSE CHOOSE i \in hits : \A j \in hits : i <= j>>))
    ELSE JoinRows([i \in 1..row_count(searched_in) |->
                    progressive_index_of(searched_for, rows(searched_in)[i])])

(***************************************************************************)
(* Matrix multiply.  The numbers stand in for f64: the inputs are small    *)
(* whole numbers, whose products and sums f64 holds exactly.               *)
(***************************************************************************)
\* `a.row_count() > 100 || b.row_count() > 100`: the row count above which
\* the rows are handed to the worker pool
ParThreshold == 100

\* Shape::row: the shape of the rows
row_shape(sh) == IF Len(sh) = 0 THEN <<>> ELSE Tail(sh)

\* shape_prefixes_match: the shapes agree on the axes both have
shape_prefixes_match(ash, bsh) ==
    \A i \in 1..Min(Len(ash), Len(bsh)) : ash[i] = bsh[i]

\* bin_pervade_recursive with pervade::mul::num_num: the product of the
\* longer shape, every element of the shorter operand meeting the cells
\* below it
pervade_mul(ash, a, bsh, b) ==
    LET n == Max(Len(a), Len(b))
        at(x, i) == x[((i - 1) \div (n \div Len(x))) + 1]
    IN  IF Len(a) = 0 \/ Len(b) = 0 THEN <<>>
        ELSE [i \in 1..n |-> at(a, i) * at(b, i)]

\* the shapes matrix_mul derives from its operands
prod_shape(a, b) ==
    IF Len(row_shape(a.shape)) >= Len(row_shape(b.shape))
    THEN row_shape(a.shape) ELSE row_shape(b.shape)
prod_elems(a, b) == Product(row_shape(prod_shape(a, b)))
result_shape(a, b) == <<row_count(a), row_count(b)>> \o row_shape(prod_shape(a, b))

\* one turn of the loop `for b_row in b.row_slices()` of the closure inner,
\* for row r of a and row j of b (0-based): the cells copied to res_row, or
\* a panic where split_at_mut is asked for more than prod_row holds
inner_cells(a, b, r, j) ==
    LET prod_row == pervade_mul(row_shape(a.shape), row_slice(a, r),
                                row_shape(b.shape), row_slice(b, j))
        pe == prod_elems(a, b)
    IN  IF Len(prod_row) < pe THEN [st |-> "panic", cells |-> <<>>]
        ELSE [st |-> "ok",
              cells |-> [e \in 1..pe |->
                            Sum([c \in 1..(Len(prod_row) \div pe) |->
                                    prod_row[(c - 1) * pe + e]])]]

\* a faulty partition: every work item is handed the first chunk
chunk_shared(a, b, r) == 0

\* a faulty partition: two rows in succession are handed the same chunk
chunk_paired(a, b, r) == (r \div 2) * (row_count(b) * prod_elems(a, b))

\* result_slice.chunks_exact_mut(b.row_count() * prod_elems): the offset of
\* the chunk zipped with row r of a
chunk_start(a, b, r) == r * (row_count(b) * prod_elems(a, b))

\* the indices (0-based) of the result buffer that the turn for the pair
\* (r, j) writes: res_row[i..i + prod_elems] of the chunk of row r
written(a, b, r, j) ==
    LET start == chunk_start(a, b, r) + j * prod_elems(a, b)
    IN  start..(start + prod_elems(a, b) - 1)

\* res with the cells of the pair (r, j) written into the chunk of row r
write_cells(a, b, res, r, j, cells) ==
    LET start == chunk_start(a, b, r) + j * prod_elems(a, b)
    IN  SubSeq(res, 1, start) \o cells \o SubSeq(res, start + Len(cells) + 1, Len(res))

\* one turn of the loop of inner with its copy into res_row: [st, data];
\* the slice res_row[i..i + prod_elems] panics where it leaves the buffer
inner_turn(a, b, res, r, j) ==
    LET c == inner_cells(a, b, r, j)
        nd == write_cells(a, b, res, r, j, c.cells)
    IN  IF c.st # "ok" THEN [st |-> c.st, data |-> res]
        ELSE IF Len(nd) # Len(res) THEN [st |-> "panic", data |-> res]
        ELSE [st |-> "ok", data |-> nd]

\* the turns lo .. hi - 1 of the loop of inner for row r of a, in order and
\* up to the first that panics: [st, data].  The range is halved so that
\* the evaluation stays shallow; the order of the turns is that of the loop.
RECURSIVE inner_turns(_, _, _, _, _, _)
inner_turns(a, b, res, r, lo, hi) ==
    IF hi <= lo THEN [st |-> "ok", data |-> res]
    ELSE IF hi = lo + 1 THEN inner_turn(a, b, res, r, lo)
    ELSE LET mid == (lo + hi) \div 2
             x == inner_turns(a, b, res, r, lo, mid)
         IN  IF x.st # "ok" THEN x ELSE inner_turns(a, b, x.data, r, mid, hi)

\* the closure inner for row r of a: [st, data]
inner(a, b, res, r) == inner_turns(a, b, res, r, 0, row_count(b))

\* inner for the rows lo .. hi - 1 of a, in order
RECURSIVE for_each_rows(_, _, _, _, _)
for_each_rows(a, b, res, lo, hi) ==
    IF hi <= lo THEN [st |-> "ok", data |-> res]
    ELSE IF hi = lo + 1 THEN inner(a, b, res, lo)
    ELSE LET mid == (lo + hi) \div 2
             x == for_each_rows(a, b, res, lo, mid)
         IN  IF x.st # "ok" THEN x ELSE for_each_rows(a, b, x.data, mid, hi)

\* iter.for_each(inner): the rows of a in order
for_each(a, b, res) == for_each_rows(a, b, res, 0, row_count(a))

\* matrix_mul up to the choice of the path: "err" for row shapes that do
\* not match, "panic" for a chunk size of 0, else "run" with the zeroed
\* result buffer
matrix_mul_setup(a, b) ==
    IF ~shape_prefixes_match(row_shape(a.shape), row_shape(b.shape))
    THEN [st |-> "err", data |-> <<>>]
    ELSE IF row_count(b) * prod_elems(a, b) = 0
    THEN [st |-> "panic", data |-> <<>>]
    ELSE [st |-> "run",
          data |-> Fill(0, row_count(a) * row_count(b) * prod_elems(a, b))]

\* whether matrix_mul hands the rows to the worker pool
parallel(a, b) == row_count(a) > ParThreshold \/ row_count(b) > ParThreshold

\* the result of matrix_mul from the buffer the work items leave; self stays
matrix_mul_result(a, b, x) ==
    IF x.st = "ok" THEN [st |-> "ok", arr |-> a, out |-> Arr(result_shape(a, b), x.data)]
    ELSE [st |-> x.st, arr |-> a, out |-> <<>>]

\* Array::matrix_mul on the sequential path
matrix_mul_seq(a, b) ==
    LET s0 == matrix_mul_setup(a, b)
    IN  IF s0.st # "run" THEN matrix_mul_result(a, b, s0)
        ELSE matrix_mul_result(a, b, for_each(a, b, s0.data))

(***************************************************************************)
(* Inputs.                                                                 *)
(***************************************************************************)
\* every sequence over S of length at most n
SeqsUpTo(S, n) == UNION {[1..k -> S] : k \in 0..n}

\* the product of the lengths in sh that are not 0
Extent(sh) == Product([i \in 1..Len(sh) |-> Max(Abs(sh[i]), 1)])
\* the shapes of rank at most r with at most n elements, and with an axis of
\* length 0 those whose other axes have at most n
Shapes(r, n) == {sh \in SeqsUpTo(0..n, r) : Extent(sh) <= n}
\* the arrays of those shapes over the elements
Arrays(r, n) == UNION {{Arr(sh, d) : d \in [1..Product(sh) -> Elems]} : sh \in Shapes(r, n)}

InputShapes == Shapes(MaxRank, MaxElems)
InputArrays == Arrays(MaxRank, MaxElems)
Needles == Arrays(MaxRank, MaxNeedle)

\* arrays one rank deeper than the inputs, with axes of length 1 and 2: their
\* rows come in several shapes that hold the same number of elements
DeepShapes == {sh \in [1..(MaxRank + 1) -> 1..2] : Product(sh) <= MaxElems}
DeepArrays == UNION {{Arr(sh, d) : d \in [1..Product(sh) -> Elems]} : sh \in DeepShapes}

\* dimension specifiers, and the lists of them that ask for no more than
\* MaxElems elements: with at most one placeholder, and one list with two
Specifiers == {Dim(n) : n \in (-2)..MaxElems} \cup {Inf(TRUE), Inf(FALSE)}
DimLists == {dims \in SeqsUpTo(Specifiers, MaxRank) :
                /\ Extent(Ints(dims)) <= MaxElems
                /\ InfCount(dims) <= 1}
            \cup {<<Inf(FALSE), Inf(TRUE)>>}
\* old shapes handed to undo_reshape: lists, and a scalar
OldShapes == {[scalar |-> FALSE, v |-> sh] : sh \in InputShapes}
                \cup {[scalar |-> TRUE, v |-> <<1>>]}
\* original shapes handed to undo_rerank out of the blue
FormerShapes == {sh \in Shapes(MaxRank, MaxNeedle) : \A i \in 1..Len(sh) : sh[i] > 0}
\* ranks handed to rerank
Ranks == (-(MaxRank + 1))..(MaxRank + 1)
\* scalar counts of keep: whole numbers and halves, of either sign
ScalarCounts == {[num |-> n, den |-> d] : n \in (-MaxElems)..MaxElems, d \in {1, 2}}
\* count lists for the array a: about one count per row, no more than
\* MaxElems rows kept; and two lists keep refuses
CountLists(a) ==
    {c \in SeqsUpTo({Whole(0), Whole(1), Whole(2)}, row_count(a) + 1) :
        /\ Len(c) >= row_count(a) - 1
        /\ Sum([i \in 1..Len(c) |-> c[i].num]) * Max(row_len(a), 1) <= MaxElems}
    \cup {<<Whole(-1)>>, <<[num |-> 1, den |-> 2]>>}
\* count lists handed to undo_keep out of the blue for the original a: about
\* one count per row, of 0 and 1 with at most one count that is neither
\* (-1, 2 or a half)
UndoCounts(a) ==
    LET odd == {Whole(-1), Whole(2), [num |-> 1, den |-> 2]}
    IN  {c \in SeqsUpTo({Whole(0), Whole(1)} \cup odd, row_count(a) + 1) :
            /\ Len(c) >= row_count(a) - 1
            /\ Cardinality({i \in 1..Len(c) : c[i] \in odd}) <= 1}
\* the originals of those calls, all of the element 0, and the kept arrays
\* handed in with the original a: of its rank, with rows all of the element
\* 1 or rows of 1 and rows of 0 in turn
ZeroArrays == {a \in InputArrays : \A i \in 1..Len(a.data) : a.data[i] = 0}
KeptArrays(a) ==
    {k \in InputArrays :
        /\ rank(k) = Max(rank(a), 1)
        /\ \/ \A i \in 1..Len(k.data) : k.data[i] = 1
           \/ \A i \in 1..Len(k.data) : k.data[i] = (((i - 1) \div row_len(k)) + 1) % 2}
ArrayFills == {NoArrayFill, ArrayFill(Arr(<<>>, <<Whole(1)>>)),
               ArrayFill(Arr(<<2>>, <<Whole(0), Whole(1)>>))}
\* the lists with entry i drawn from the set Rs[i]
RECURSIVE PerAxis(_)
PerAxis(Rs) ==
    IF Len(Rs) = 0 THEN {<<>>}
    ELSE {<<k>> \o l : k \in Rs[1], l \in PerAxis(Tail(Rs))}
\* rotation offsets for the array a: a scalar or a list with an offset per
\* leading axis, each reaching past the axis length on either side; and a
\* list one longer than the rank
Offsets(a) ==
    LET Rs == [i \in 1..rank(a) |-> (-(a.shape[i] + 1))..(a.shape[i] + 1)]
    IN  UNION {{Arr(<<m>>, l) : l \in PerAxis(Take(Rs, m))} : m \in 0..rank(a)}
        \cup {Arr(<<>>, <<k>>) : k \in -1..1}
        \cup {Arr(<<rank(a) + 1>>, Fill(1, rank(a) + 1))}
\* offset arrays that rotate_depth aligns with depth_slices
DeepOffsets == UNION {{Arr(sh, Fill(1, Product(sh)))} : sh \in Shapes(2, 2)}
\* window sizes for the array a: a size per leading axis, reaching past the
\* axis length on either side; and a list one longer than the rank
SizeLists(a) ==
    LET Rs == [i \in 1..rank(a) |-> (-(a.shape[i] + 1))..(a.shape[i] + 1)]
    IN  UNION {PerAxis(Take(Rs, m)) : m \in 0..rank(a)}
        \cup {Fill(1, rank(a) + 1)}

(***************************************************************************)
(* The state: arr is the array the operators act on (the haystack of the   *)
(* search operators), orig the array before the operations of hist, hist   *)
(* the operations applied, each with its arguments, status and result.     *)
(***************************************************************************)
\* operands above the threshold, of ParThreshold + 1 rows: a vector, a
\* matrix and a matrix of empty rows
TallRows == ParThreshold + 1
TallVec == Arr(<<TallRows>>, [i \in 1..TallRows |-> i % 3])
TallMat == Arr(<<TallRows, 2>>, [i \in 1..(2 * TallRows) |-> i % 3])
TallEmpty == Arr(<<TallRows, 0>>, <<>>)
\* the operands of matrix multiply: the small arrays of rank 1 and more, and
\* the tall matrices
MatSmall == {a \in Needles : rank(a) >= 1}
MatOperands == MatSmall \cup {TallMat, TallEmpty}
\* the other operand: for a tall self a few arrays of one row or none, else
\* the small arrays and, for a self of one row or none, the tall vector
MatOthers(a) ==
    IF row_count(a) > ParThreshold
    THEN {Arr(<<1, 2>>, <<1, 2>>), Arr(<<1, 0>>, <<>>), Arr(<<0>>, <<>>), Arr(<<1, 1>>, <<1>>)}
    ELSE MatSmall \cup (IF row_count(a) <= 1 THEN {TallVec} ELSE {})

\* arr: the array the operators are called on; orig: that array as it was
\* given; hist: the calls made, with their arguments and results; mm: the
\* matrix multiply whose work items are with the worker pool, mm.wrote the
\* pairs <<r, k>> of a row of a and a buffer index its work item wrote
VARIABLES arr, orig, hist, mm
vars == <<arr, orig, hist, mm>>

\* no matrix multiply is with the pool
NoCall == [on |-> FALSE, b |-> <<>>, res |-> <<>>, next |-> 0, at |-> {},
           overtaken |-> FALSE, wrote |-> {}]

Rec(op, arg, res) == [op |-> op, arg |-> arg, st |-> res.st, out |-> res.out]

\* the operator's result is taken as the first operation
First(op, arg, res) ==
    /\ arr' = res.arr
    /\ hist' = <<Rec(op, arg, res)>>
    /\ mm' = NoCall
    /\ UNCHANGED orig

\* the operator's result is taken as the second operation
Second(op, arg, res) ==
    /\ arr' = res.arr
    /\ hist' = Append(hist, Rec(op, arg, res))
    /\ mm' = NoCall
    /\ UNCHANGED orig

\* no operation yet / one operation, prev, that succeeded
Fresh == hist = <<>> /\ ~mm.on
After(prev) == Len(hist) = 1 /\ hist[1].op = prev /\ hist[1].st = "ok"

Init ==
    /\ arr \in InputArrays
    /\ orig = arr
    /\ hist = <<>>
    /\ mm = NoCall

Reshape ==
    /\ Fresh
    /\ \E dims \in DimLists, fill \in FillOpts :
        First("reshape", [dims |-> dims, fill |-> fill], reshape(arr, dims, fill))

ReshapeScalar ==
    /\ Fresh
    /\ \E count \in Specifiers :
        First("reshape_scalar", [count |-> count], Ok(reshape_scalar(arr, count)))

UndoReshape ==
    \/ /\ Fresh
       /\ \E old_shape \in OldShapes :
            First("undo_reshape", [old_shape |-> old_shape], undo_reshape(arr, old_shape))
    \/ /\ After("reshape")
       /\ hist[1].arg.fill = NoFill \/ element_count(arr) = element_count(orig)
       /\ LET old_shape == [scalar |-> FALSE, v |-> orig.shape]
          IN  Second("undo_reshape", [old_shape |-> old_shape], undo_reshape(arr, old_shape))

Rerank ==
    /\ Fresh
    /\ \E r \in Ranks : First("rerank", [rank |-> r], rerank(arr, r))

UndoRerank ==
    \/ /\ Fresh
       /\ \E r \in Ranks, sh \in FormerShapes :
            First("undo_rerank", [rank |-> r, orig_shape |-> sh], undo_rerank(arr, r, sh))
    \/ /\ After("rerank")
       /\ Second("undo_rerank", [rank |-> hist[1].arg.rank, orig_shape |-> orig.shape],
                 undo_rerank(arr, hist[1].arg.rank, orig.shape))

KeepScalar ==
    /\ Fresh
    /\ \E count \in ScalarCounts :
        First("keep_scalar", [count |-> count], keep_scalar_real(arr, count))

KeepList ==
    \/ /\ Fresh
       /\ \E counts \in CountLists(arr), afill \in ArrayFills :
            /\ afill.some => Len(counts) < row_count(arr)
            /\ First("keep", [counts |-> counts, afill |-> afill], keep_list(arr, counts, afill))
    \/ /\ After("unkeep")
       /\ Second("keep", [counts |-> hist[1].out, afill |-> NoArrayFill],
                 keep_list(arr, hist[1].out, NoArrayFill))

Unkeep ==
    /\ Fresh
    /\ First("unkeep", <<>>, unkeep(arr))

UndoKeep ==
    /\ After("keep")
    /\ Second("undo_keep", [counts |-> hist[1].arg.counts, into |-> orig],
              undo_keep(arr, hist[1].arg.counts, orig, hist[1].arg.afill))

\* undo_keep out of the blue: arr is the original, kept the transformed
\* array
UndoKeepOf ==
    /\ Fresh
    /\ arr \in ZeroArrays
    /\ \E counts \in UndoCounts(arr), kept \in KeptArrays(arr), afill \in ArrayFills :
        /\ afill.some => Len(counts) < row_count(arr)
        /\ First("undo_keep", [counts |-> counts, kept |-> kept, afill |-> afill],
                 undo_keep(kept, counts, arr, afill))

Rotate ==
    \/ /\ Fresh
       /\ \E by \in Offsets(arr), fill \in FillOpts :
            First("rotate", [by |-> by, depth |-> 0, by_depth |-> 0, fill |-> fill],
                  rotate_depth(arr, by, 0, 0, fill))
    \/ /\ Fresh
       /\ \E by \in DeepOffsets, depth \in 0..2, by_depth \in 0..2 :
            /\ depth + by_depth > 0
            /\ First("rotate", [by |-> by, depth |-> depth, by_depth |-> by_depth,
                                fill |-> NoFill],
                     rotate_depth(arr, by, depth, by_depth, NoFill))
    \/ /\ After("rotate")
       /\ hist[1].arg.fill = NoFill
       /\ LET a == hist[1].arg
              back == Arr(a.by.shape, [i \in 1..Len(a.by.data) |-> -a.by.data[i]])
          IN  Second("rotate",
                     [by |-> back, depth |-> a.depth, by_depth |-> a.by_depth, fill |-> a.fill],
                     rotate_depth(arr, back, a.depth, a.by_depth, a.fill))

Windows ==
    /\ Fresh
    /\ \E sizes \in SizeLists(arr), fill \in FillOpts :
        First("windows", [sizes |-> sizes, fill |-> fill], windows(arr, sizes, fill))

\* the search operators leave the haystack as it is and return a new array
Searched(res) == [st |-> res.st, arr |-> arr, out |-> res.arr]

Find ==
    /\ Fresh
    /\ \E needle \in Needles, fill \in FillOpts :
        First("find", [needle |-> needle, fill |-> fill], Searched(find(needle, arr, fill)))

Mask ==
    \/ /\ Fresh
       /\ \E needle \in Needles :
            First("mask", [needle |-> needle], Searched(mask(needle, arr)))
    \/ /\ After("find")
       /\ hist[1].arg.fill = NoFill
       /\ Second("mask", [needle |-> hist[1].arg.needle],
                 Searched(mask(hist[1].arg.needle, arr)))

Member ==
    /\ Fresh
    /\ \E needle \in Needles :
        First("member", [needle |-> needle], Searched(member(needle, arr)))

IndexOf ==
    \/ /\ Fresh
       /\ \E needle \in Needles :
            First("index_of", [needle |-> needle], Searched(index_of(needle, arr)))
    \/ /\ After("member")
       /\ Second("index_of", [needle |-> hist[1].arg.needle],
                 Searched(index_of(hist[1].arg.needle, arr)))

\* index_of between two arrays of the deeper rank
IndexOfDeep ==
    /\ Fresh
    /\ arr \in DeepArrays
    /\ \E needle \in DeepArrays :
        First("index_of", [needle |-> needle], Searched(index_of(needle, arr)))

ProgressiveIndexOf ==
    /\ Fresh
    /\ \E needle \in Needles :
        First("progressive_index_of", [needle |-> needle],
              Searched(progressive_index_of(needle, arr)))

\* progressive_index_of between two arrays of the deeper rank
ProgressiveIndexOfDeep ==
    /\ Fresh
    /\ arr \in DeepArrays
    /\ \E needle \in DeepArrays :
        First("progressive_index_of", [needle |-> needle],
              Searched(progressive_index_of(needle, arr)))

\* matrix_mul where it fails before the work items run, and on the
\* sequential path
MatMul ==
    /\ Fresh
    /\ \E b \in MatOthers(arr) :
        /\ matrix_mul_setup(arr, b).st # "run" \/ ~parallel(arr, b)
        /\ First("matrix_mul", [b |-> b, path |-> "seq", overtaken |-> FALSE],
                 matrix_mul_seq(arr, b))

\* matrix_mul on the parallel path: iter.par_bridge().for_each(inner) hands
\* the zipped rows and chunks to the pool
MatMulFork ==
    /\ Fresh
    /\ \E b \in MatOthers(arr) :
        /\ matrix_mul_setup(arr, b).st = "run"
        /\ parallel(arr, b)
        /\ mm' = [on |-> TRUE, b |-> b, res |-> matrix_mul_setup(arr, b).data,
                  next |-> 0, at |-> {}, overtaken |-> FALSE, wrote |-> {}]
    /\ UNCHANGED <<arr, orig, hist>>

\* a thread that has no item pulls the next one from the bridged iterator;
\* mm.at holds the items in work as pairs <<r, j>>: row r of a, about to
\* meet row j of b
MatMulTake ==
    /\ mm.on
    /\ mm.next < row_count(arr)
    /\ Cardinality(mm.at) < MaxWorkers
    /\ mm' = [mm EXCEPT !.at = mm.at \cup {<<mm.next, 0>>}, !.next = mm.next + 1]
    /\ UNCHANGED <<arr, orig, hist>>

\* a thread runs one turn of the loop of inner on its item <<r, j>>: it
\* writes the cells of the pair into its chunk, or panics, which ends the
\* call; after the last row of b the item is done
MatMulWork ==
    /\ mm.on
    /\ \E it \in mm.at :
        LET r == it[1]
            j == it[2]
            t == inner_turn(arr, mm.b, mm.res, r, j)
            last == j + 1 >= row_count(mm.b)
            behind == \E o \in mm.at : o[1] < r
        IN  IF t.st # "ok"
            THEN First("matrix_mul", [b |-> mm.b, path |-> "par", overtaken |-> mm.overtaken],
                       matrix_mul_result(arr, mm.b, t))
            ELSE /\ mm' = [mm EXCEPT !.res = t.data,
                                    !.at = (mm.at \ {it}) \cup
                                           (IF last THEN {} ELSE {<<r, j + 1>>}),
                                    !.overtaken = mm.overtaken \/ (last /\ behind),
                                    !.wrote = mm.wrote \cup
                                              {<<r, k>> : k \in written(arr, mm.b, r, j)}]
                 /\ UNCHANGED <<arr, orig, hist>>

\* for_each returns when every item is done; matrix_mul returns the array
MatMulJoin ==
    /\ mm.on
    /\ mm.next >= row_count(arr)
    /\ mm.at = {}
    /\ First("matrix_mul", [b |-> mm.b, path |-> "par", overtaken |-> mm.overtaken],
             matrix_mul_result(arr, mm.b, [st |-> "ok", data |-> mm.res]))

Next ==
    \/ Reshape \/ ReshapeScalar \/ UndoReshape
    \/ Rerank \/ UndoRerank
    \/ KeepScalar \/ KeepList \/ Unkeep \/ UndoKeep
    \/ Rotate \/ Windows
    \/ Find \/ Mask \/ Member \/ IndexOf

Spec == Init /\ [][Next]_vars

\* the row lookups, on the inputs and on the deeper arrays
InitDeep ==
    /\ arr \in InputArrays \cup DeepArrays
    /\ orig = arr
    /\ hist = <<>>
    /\ mm = NoCall
NextIndexOf ==
    \/ Member \/ IndexOf \/ IndexOfDeep
    \/ ProgressiveIndexOf \/ ProgressiveIndexOfDeep
SpecIndexOf == InitDeep /\ [][NextIndexOf]_vars

\* the operators of one family alone
NextShape == Reshape \/ ReshapeScalar \/ UndoReshape \/ Rerank \/ UndoRerank
SpecShape == Init /\ [][NextShape]_vars

NextKeep == KeepScalar \/ KeepList \/ Unkeep \/ UndoKeep \/ UndoKeepOf
SpecKeep == Init /\ [][NextKeep]_vars

SpecRotate == Init /\ [][Rotate]_vars

SpecWindows == Init /\ [][Windows]_vars

\* matrix multiply alone, on its own operands
InitMatMul ==
    /\ arr \in MatOperands
    /\ orig = arr
    /\ hist = <<>>
    /\ mm = NoCall
NextMatMul == MatMul \/ MatMulFork \/ MatMulTake \/ MatMulWork \/ MatMulJoin
SpecMatMul == InitMatMul /\ [][NextMatMul]_vars

NextSearch == Find \/ Mask \/ Member \/ IndexOf
SpecSearch == Init /\ [][NextSearch]_vars

(***************************************************************************)
(* Properties.                                                             *)
(***************************************************************************)
\* the operation applied last
LastOp == hist[Len(hist)]
\* the operators that return a new array and leave the haystack alone
SearchOps == {"find", "mask", "member", "index_of"}

\* C1: after every successful call of a public operator the array it leaves
\* in place, and the array it returns, has as many elements in its flat
\* buffer as the product of its shape's dimensions.
C1_DataLenIsShapeProduct ==
    (hist # <<>> /\ LastOp.st = "ok") =>
        /\ ValidShape(arr)
        /\ LastOp.op \in SearchOps => ValidShape(LastOp.out)

\* a reshape without fill value took a buffer to a larger one
C1_Witness ==
    /\ Len(hist) = 1
    /\ hist[1].op = "reshape"
    /\ hist[1].st = "ok"
    /\ hist[1].arg.fill = NoFill
    /\ element_count(arr) > element_count(orig)
    /\ element_count(orig) > 1

\* C2: a list-form reshape to non-negative dimensions, without placeholder,
\* that ask for as many elements as the array has, succeeds; undo_reshape
\* with the original shape then succeeds and gives back the original shape
\* with the same flat data in the same order.
C2_Case ==
    /\ Len(hist) >= 1
    /\ hist[1].op = "reshape"
    /\ \A i \in 1..Len(hist[1].arg.dims) :
            ~hist[1].arg.dims[i].inf /\ hist[1].arg.dims[i].n >= 0
    /\ Product(Ints(hist[1].arg.dims)) = element_count(orig)

C2_ReshapeRoundTrip ==
    C2_Case =>
        /\ hist[1].st = "ok"
        /\ (Len(hist) = 2 /\ hist[2].op = "undo_reshape") =>
                hist[2].st = "ok" /\ arr = orig

\* a 2 by 2 array went to another shape and came back
C2_Witness ==
    /\ C2_Case
    /\ Len(hist) = 2
    /\ hist[2].op = "undo_reshape"
    /\ orig.shape = <<2, 2>>
    /\ Ints(hist[1].arg.dims) = <<4>>
    /\ orig.data = <<0, 1, 1, 0>>
    /\ arr = orig

\* C3: rerank(r) succeeds for r >= 0 and for negative r of magnitude at
\* most the rank, on an array of any rank; undo_rerank with r and the
\* original shape then gives back the original shape with the data unchanged.
C3_RerankRoundTrip ==
    (Len(hist) >= 1 /\ hist[1].op = "rerank") =>
        /\ hist[1].st = "ok" <=> (hist[1].arg.rank >= 0 \/ -hist[1].arg.rank <= rank(orig))
        /\ (Len(hist) = 2 /\ hist[2].op = "undo_rerank") =>
                hist[2].st = "ok" /\ arr = orig

\* a rerank that changed the shape of an array was undone
C3_Witness ==
    /\ Len(hist) = 2
    /\ hist[1].op = "rerank"
    /\ hist[2].op = "undo_rerank"
    /\ rerank(orig, hist[1].arg.rank).arr.shape # orig.shape
    /\ rank(orig) = 2
    /\ hist[1].arg.rank > rank(orig)
    /\ arr = orig

\* the count list of ones, one per row of the array kept
C4_Case ==
    /\ Len(hist) >= 1
    /\ hist[1].op = "keep"
    /\ hist[1].arg.counts = Fill(Whole(1), row_count(orig))

\* C4 as stated: keep with a list of ones as long as the row count is the
\* identity for an array of any rank, a rank-0 scalar kept with [1] and
\* arrays with rows of zero elements included.
C4_AsStated ==
    C4_Case => hist[1].st = "ok" /\ (Len(hist) = 1 => arr = orig)

\* C4: keep with a list of ones as long as the row count is the identity
\* for an array of rank 1 or more, rows of zero elements included; a rank-0
\* scalar kept with [1] becomes the list of shape [1] that holds the scalar.
C4_KeepOnes ==
    C4_Case =>
        /\ hist[1].st = "ok"
        /\ (Len(hist) = 1 /\ rank(orig) >= 1) => arr = orig
        /\ (Len(hist) = 1 /\ rank(orig) = 0) => arr = Arr(<<1>>, orig.data)

\* two rows of two elements each were kept by [1, 1]
C4_Witness ==
    /\ C4_Case
    /\ Len(hist) = 1
    /\ orig.shape = <<2, 2>>
    /\ orig.data = <<0, 1, 1, 1>>
    /\ arr = orig

\* no two adjacent rows of a are equal
NoAdjacentEqualRows(a) ==
    \A i \in 1..(row_count(a) - 1) : row_slice(a, i - 1) # row_slice(a, i)

\* C5: unkeep of an array of rank 1 or more succeeds, and when no two
\* adjacent rows of the array are equal, keep with the counts unkeep
\* returned, applied to the compressed array it returned, succeeds and
\* gives the original shape and data.
C5_UnkeepKeep ==
    (Len(hist) >= 1 /\ hist[1].op = "unkeep" /\ rank(orig) >= 1) =>
        /\ hist[1].st = "ok"
        /\ (Len(hist) = 2 /\ hist[2].op = "keep" /\ NoAdjacentEqualRows(orig)) =>
                hist[2].st = "ok" /\ arr = orig

\* an array of three rows, each unlike the one before, went through unkeep
\* and keep
C5_Witness ==
    /\ Len(hist) = 2
    /\ hist[1].op = "unkeep"
    /\ hist[2].op = "keep"
    /\ orig.shape = <<3, 1>>
    /\ NoAdjacentEqualRows(orig)
    /\ hist[1].out = <<Whole(1), Whole(1), Whole(1)>>
    /\ arr = orig

\* a rotation without fill value, at depth 0, by a list of offsets no
\* longer than the rank, of an array with no axis of length 0
C6_Case ==
    /\ Len(hist) >= 1
    /\ hist[1].op = "rotate"
    /\ hist[1].arg.fill = NoFill
    /\ hist[1].arg.depth = 0 /\ hist[1].arg.by_depth = 0
    /\ rank(hist[1].arg.by) = 1
    /\ Len(hist[1].arg.by.data) <= rank(orig)
    /\ \A i \in 1..rank(orig) : orig.shape[i] > 0

\* C6: without fill value, rotating an array with no axis of length 0 by
\* a list of signed offsets, at most one per axis and of any magnitude,
\* succeeds, and rotating the result by the negated offsets succeeds and
\* gives the original shape and data.
C6_RotateBack ==
    C6_Case =>
        /\ hist[1].st = "ok"
        /\ (Len(hist) = 2 /\ hist[2].op = "rotate") => hist[2].st = "ok" /\ arr = orig

\* a 2 by 2 array was rotated along both axes, one offset beyond the axis
\* length, to another array, and back
C6_Witness ==
    /\ C6_Case
    /\ Len(hist) = 2
    /\ orig.shape = <<2, 2>>
    /\ hist[1].arg.by.data = <<-3, 1>>
    /\ hist[2].arg.by.data = <<3, -1>>
    /\ rotate_depth(orig, hist[1].arg.by, 0, 0, NoFill).arr # orig
    /\ arr = orig

\* the index along each axis of the flat position f (0-based) of shape sh
CoordsOf(sh, f) == [i \in 1..Len(sh) |-> (f \div Product(Skip(sh, i))) % sh[i]]
\* the flat position (0-based) of the index idx of shape sh
FlatOf(sh, idx) == Sum([i \in 1..Len(sh) |-> idx[i] * Product(Skip(sh, i))])
\* the index moved by the offsets k along the leading axes, modulo the axis
MovedBy(sh, idx, k) ==
    [i \in 1..Len(sh) |-> IF i <= Len(k) THEN (idx[i] + k[i]) % sh[i] ELSE idx[i]]

\* C7: without fill value, rotating an array whose axes all have a length
\* above 0 by the offsets k0..k(m-1), m at most the rank, gives the array of
\* the same shape whose element at index (i0, ..) is the source element at
\* index ((i0 + k0) mod n0, .., (i(m-1) + k(m-1)) mod n(m-1), i(m), ..), for
\* offsets of either sign and any magnitude; [1,2,3,4,5] rotated by 2 is
\* [3,4,5,1,2].
C7_RotateIndex ==
    /\ rotate_depth(Arr(<<5>>, <<1, 2, 3, 4, 5>>), Arr(<<>>, <<2>>), 0, 0, NoFill)
            = Ok(Arr(<<5>>, <<3, 4, 5, 1, 2>>))
    /\ (C6_Case /\ Len(hist) = 1) =>
            /\ hist[1].st = "ok"
            /\ arr.shape = orig.shape
            /\ Len(arr.data) = Len(orig.data)
            /\ \A f \in 0..(Len(orig.data) - 1) :
                    arr.data[f + 1] = orig.data[FlatOf(orig.shape,
                        MovedBy(orig.shape, CoordsOf(orig.shape, f), hist[1].arg.by.data)) + 1]

\* a 2 by 2 array was rotated by a negative offset beyond the length of the
\* first axis and a positive one along the second
C7_Witness ==
    /\ C6_Case
    /\ Len(hist) = 1
    /\ orig.shape = <<2, 2>>
    /\ orig.data = <<0, 0, 0, 1>>
    /\ hist[1].arg.by.data = <<-3, 1>>
    /\ arr.data = <<1, 0, 0, 0>>

\* C8: without fill value, windows of size w, 1 <= w <= n, of a 1-D array
\* of length n succeeds and returns an array of shape [n - w + 1, w] whose
\* window i, element j is the source element i + j.
C8_Case ==
    /\ Len(hist) = 1
    /\ hist[1].op = "windows"
    /\ hist[1].arg.fill = NoFill
    /\ rank(orig) = 1
    /\ Len(hist[1].arg.sizes) = 1
    /\ hist[1].arg.sizes[1] >= 1
    /\ hist[1].arg.sizes[1] <= orig.shape[1]

C8_Windows1D ==
    C8_Case =>
        LET n == orig.shape[1]
            w == hist[1].arg.sizes[1]
        IN  /\ hist[1].st = "ok"
            /\ arr.shape = <<n - w + 1, w>>
            /\ Len(arr.data) = (n - w + 1) * w
            /\ \A i \in 0..(n - w), j \in 0..(w - 1) :
                    arr.data[i * w + j + 1] = orig.data[i + j + 1]

\* windows of size 2 of a list of 4 elements
C8_Witness ==
    /\ C8_Case
    /\ orig.data = <<0, 1, 1, 0>>
    /\ hist[1].arg.sizes = <<2>>
    /\ arr = Arr(<<3, 2>>, <<0, 1, 1, 1, 1, 0>>)

\* find without fill value and mask, of the same needle in the same
\* haystack, both succeeded
C9_Case ==
    /\ Len(hist) = 2
    /\ hist[1].op = "find" /\ hist[1].st = "ok" /\ hist[1].arg.fill = NoFill
    /\ hist[2].op = "mask" /\ hist[2].st = "ok"
    /\ hist[2].arg.needle = hist[1].arg.needle

\* C9 as stated: where find and mask both succeed, every haystack position
\* at which the result of mask is non-zero is a position at which the
\* result of find is 1.
C9_AsStated ==
    C9_Case =>
        /\ hist[1].out.shape = hist[2].out.shape
        /\ \A p \in 1..Len(hist[2].out.data) :
                hist[2].out.data[p] # 0 => hist[1].out.data[p] = 1

\* the needle's shape with leading 1s up to the haystack's rank
C9_Block == Fill(1, rank(arr) - rank(hist[1].arg.needle)) \o hist[1].arg.needle.shape

\* C9: where find and mask both succeed, both results have the haystack's
\* shape, and every haystack position at which the result of mask is
\* non-zero lies in a block of the needle's shape that carries one mask
\* label throughout and whose first position is one at which the result of
\* find is 1.
C9_MaskBlocksStartAtFinds ==
    C9_Case =>
        /\ hist[1].out.shape = arr.shape
        /\ hist[2].out.shape = arr.shape
        /\ \A p \in 0..(Len(hist[2].out.data) - 1) :
                hist[2].out.data[p + 1] # 0 =>
                    \E c \in 0..(Len(hist[2].out.data) - 1) :
                        /\ hist[1].out.data[c + 1] = 1
                        /\ \A i \in 1..rank(arr) :
                            /\ CoordsOf(arr.shape, p)[i] >= CoordsOf(arr.shape, c)[i]
                            /\ CoordsOf(arr.shape, p)[i] < CoordsOf(arr.shape, c)[i] + C9_Block[i]
                        /\ \A q \in 0..(Len(hist[2].out.data) - 1) :
                            (\A i \in 1..rank(arr) :
                                /\ CoordsOf(arr.shape, q)[i] >= CoordsOf(arr.shape, c)[i]
                                /\ CoordsOf(arr.shape, q)[i]
                                        < CoordsOf(arr.shape, c)[i] + C9_Block[i])
                            => hist[2].out.data[q + 1] = hist[2].out.data[p + 1]

\* a needle of two elements was found twice in a list of four, and mask
\* labelled the two blocks 1 and 2
C9_Witness ==
    /\ C9_Case
    /\ hist[1].arg.needle = Arr(<<2>>, <<0, 1>>)
    /\ arr = Arr(<<4>>, <<0, 1, 0, 1>>)
    /\ hist[1].out.data = <<1, 0, 1, 0>>
    /\ hist[2].out.data = <<1, 1, 2, 2>>

\* member and index_of, of the same needle in the same haystack, both
\* succeeded
C10_Case ==
    /\ Len(hist) = 2
    /\ hist[1].op = "member" /\ hist[1].st = "ok"
    /\ hist[2].op = "index_of" /\ hist[2].st = "ok"
    /\ hist[2].arg.needle = hist[1].arg.needle

\* C10 as stated: where member and index_of both succeed, whatever the
\* ranks of needle and haystack, the results have the same shape and
\* member's entry is 1 exactly where index_of's entry is below the
\* haystack's row count.
C10_AsStated ==
    C10_Case =>
        /\ hist[1].out.shape = hist[2].out.shape
        /\ \A i \in 1..Len(hist[1].out.data) :
                hist[1].out.data[i] = 1 <=> hist[2].out.data[i] < row_count(arr)

\* the number of rows looked through for one entry: the haystack's row
\* count, or, where the haystack's rank is above the needle's by d >= 2,
\* the length of the haystack's axis d (counted from 1)
C10_Searched ==
    LET d == rank(arr) - rank(hist[1].arg.needle)
    IN  IF d >= 2 THEN arr.shape[d] ELSE row_count(arr)

\* C10: where member and index_of both succeed, the results have the same
\* shape and member's entry is 1 exactly where index_of's entry is below
\* the number of rows looked through: the haystack's row count where the
\* needle's rank is at least the haystack's rank less 1, and the length of
\* the haystack's axis d (counted from 1) where the haystack's rank is
\* above the needle's by d >= 2.
C10_MemberIffIndexed ==
    C10_Case =>
        /\ hist[1].out.shape = hist[2].out.shape
        /\ Len(hist[1].out.data) = Len(hist[2].out.data)
        /\ \A i \in 1..Len(hist[1].out.data) :
                hist[1].out.data[i] = 1 <=> hist[2].out.data[i] < C10_Searched

\* a scalar was looked for in the two rows of a 2 by 2 haystack: it is in
\* the second row only, at position 1
C10_Witness ==
    /\ C10_Case
    /\ hist[1].arg.needle = Arr(<<>>, <<1>>)
    /\ arr = Arr(<<2, 2>>, <<0, 0, 0, 1>>)
    /\ hist[1].out = Arr(<<2>>, <<0, 1>>)
    /\ hist[2].out = Arr(<<2>>, <<2, 1>>)

\* C11: a matrix multiply that ran its work items on the worker pool returns,
\* whatever the order in which the workers took their turns and finished the
\* rows, what the sequential path returns for the same operands.
C11_ParallelEqualsSequential ==
    (Len(hist) >= 1 /\ hist[1].op = "matrix_mul" /\ hist[1].arg.path = "par") =>
        LET q == matrix_mul_seq(orig, hist[1].arg.b)
        IN  hist[1].st = q.st /\ hist[1].out = q.out

\* a tall matrix was multiplied by the pool, a row having finished while a
\* row before it was still in work
C11_Witness ==
    /\ Len(hist) = 1
    /\ hist[1].op = "matrix_mul"
    /\ hist[1].arg.path = "par"
    /\ hist[1].arg.overtaken
    /\ hist[1].st = "ok"
    /\ orig = TallMat
    /\ hist[1].out.shape = <<TallRows, 1>>
    /\ \E i \in 1..Len(hist[1].out.data) : hist[1].out.data[i] > 1

\* keep of a list with one natural count per row, on an array of rank 1 or
\* more, as the only call
C12_Case ==
    /\ Len(hist) = 1
    /\ hist[1].op = "keep"
    /\ rank(orig) >= 1
    /\ Len(hist[1].arg.counts) = row_count(orig)
    /\ \A i \in 1..Len(hist[1].arg.counts) : IsNatural(hist[1].arg.counts[i])

\* the row of the input (0-based) that row k (0-based) of the concatenation
\* of the repeated rows comes from, for the counts c
C12_Source(c, k) ==
    CHOOSE i \in 0..(Len(c) - 1) :
        /\ Sum(SubSeq(c, 1, i)) <= k
        /\ k < Sum(SubSeq(c, 1, i + 1))

\* C12: keep with one natural count per row succeeds and returns each row
\* repeated its count times, in row order: the result has as many rows as
\* the counts sum to, of the row shape of the input, and row k is the input
\* row it comes from; keep([2,0,1]) of rows [A,B,C] is [A,A,C].  Both where
\* all counts are 0 or 1 and where some count is 2.
C12_KeepRepeatsRows ==
    /\ keep_list(Arr(<<3>>, <<7, 8, 9>>), <<Whole(2), Whole(0), Whole(1)>>, NoArrayFill)
            = Ok(Arr(<<3>>, <<7, 7, 9>>))
    /\ C12_Case =>
        LET c == [i \in 1..Len(hist[1].arg.counts) |-> AsCount(hist[1].arg.counts[i])]
        IN  /\ hist[1].st = "ok"
            /\ arr.shape = <<Sum(c)>> \o Tail(orig.shape)
            /\ Len(arr.data) = Sum(c) * row_len(orig)
            /\ \A k \in 0..(Sum(c) - 1) :
                    row_slice(arr, k) = row_slice(orig, C12_Source(c, k))

\* rows A, B of two elements each were kept by [2, 0] and gave A, A
C12_Witness ==
    /\ C12_Case
    /\ hist[1].arg.counts = <<Whole(2), Whole(0)>>
    /\ orig = Arr(<<2, 2>>, <<0, 1, 1, 1>>)
    /\ arr = Arr(<<2, 2>>, <<0, 1, 0, 1>>)

\* a list-form reshape, as the only call, of an array that has elements, to
\* non-negative dimensions without placeholder and without a fill value
C13_Case ==
    /\ Len(hist) = 1
    /\ hist[1].op = "reshape"
    /\ hist[1].arg.fill = NoFill
    /\ Len(orig.data) > 0
    /\ \A i \in 1..Len(hist[1].arg.dims) :
            ~hist[1].arg.dims[i].inf /\ hist[1].arg.dims[i].n >= 0

\* C13: such a reshape of n elements to a target of m elements succeeds,
\* takes the target as its shape and has m elements, element i (0-based)
\* being element i mod n of the source: a prefix for m <= n, the one element
\* of a scalar broadcast, a cyclic repetition otherwise; 0..11 reshaped to
\* [3,4] has the row i = [4i, 4i+1, 4i+2, 4i+3].
C13_ReshapeCycles ==
    /\ reshape(Arr(<<12>>, [i \in 1..12 |-> i - 1]), <<Dim(3), Dim(4)>>, NoFill)
            = Ok(Arr(<<3, 4>>, <<0, 1, 2, 3, 4, 5, 6, 7, 8, 9, 10, 11>>))
    /\ C13_Case =>
        LET n == Len(orig.data)
            m == Product(Ints(hist[1].arg.dims))
        IN  /\ hist[1].st = "ok"
            /\ arr.shape = Ints(hist[1].arg.dims)
            /\ Len(arr.data) = m
            /\ \A i \in 0..(m - 1) : arr.data[i + 1] = orig.data[(i % n) + 1]

\* two elements went round to fill three
C13_Witness ==
    /\ C13_Case
    /\ orig = Arr(<<2>>, <<0, 1>>)
    /\ Ints(hist[1].arg.dims) = <<3>>
    /\ arr = Arr(<<3>>, <<0, 1, 0>>)

\* find, without a fill value, of a needle of rank 1 and length m in a
\* haystack of rank 1 and length n >= m
C14_Case ==
    /\ Len(hist) >= 1
    /\ hist[1].op = "find"
    /\ hist[1].arg.fill = NoFill
    /\ rank(orig) = 1
    /\ rank(hist[1].arg.needle) = 1
    /\ Len(hist[1].arg.needle.data) <= Len(orig.data)

\* whether the needle nd lies in the haystack hs from position p (0-based)
C14_MatchAt(nd, hs, p) == SubSeq(hs, p + 1, p + Len(nd)) = nd

\* C14 as stated: the result has the length n - m + 1 and entry p is 1
\* exactly when haystack[p..p+m] equals the needle; find([1,2],
\* [0,1,2,1,2,0]) is [0,1,0,1,0].
C14_AsStated ==
    /\ find(Arr(<<2>>, <<1, 2>>), Arr(<<6>>, <<0, 1, 2, 1, 2, 0>>), NoFill)
            = Ok(Arr(<<5>>, <<0, 1, 0, 1, 0>>))
    /\ C14_Case =>
        LET nd == hist[1].arg.needle.data
            out == hist[1].out
        IN  /\ hist[1].st = "ok"
            /\ out.shape = <<Len(orig.data) - Len(nd) + 1>>
            /\ \A p \in 0..(Len(orig.data) - Len(nd)) :
                    out.data[p + 1] = 1 <=> C14_MatchAt(nd, orig.data, p)

\* C14: the result has the haystack's length n; its entries are 0 and 1, and
\* entry p is 1 exactly when m >= 1, p <= n - m and haystack[p..p+m] equals
\* the needle; find([1,2], [0,1,2,1,2,0]) is [0,1,0,1,0,0].
C14_Find1D ==
    /\ find(Arr(<<2>>, <<1, 2>>), Arr(<<6>>, <<0, 1, 2, 1, 2, 0>>), NoFill)
            = Ok(Arr(<<6>>, <<0, 1, 0, 1, 0, 0>>))
    /\ C14_Case =>
        LET nd == hist[1].arg.needle.data
            out == hist[1].out
        IN  /\ hist[1].st = "ok"
            /\ out.shape = <<Len(orig.data)>>
            /\ Len(out.data) = Len(orig.data)
            /\ \A p \in 0..(Len(orig.data) - 1) :
                    /\ out.data[p + 1] \in {0, 1}
                    /\ out.data[p + 1] = 1 <=>
                            /\ Len(nd) >= 1
                            /\ p <= Len(orig.data) - Len(nd)
                            /\ C14_MatchAt(nd, orig.data, p)

\* the needle [0,1] was found at positions 0 and 2 of [0,1,0,1]
C14_Witness ==
    /\ C14_Case
    /\ hist[1].arg.needle = Arr(<<2>>, <<0, 1>>)
    /\ orig = Arr(<<4>>, <<0, 1, 0, 1>>)
    /\ hist[1].out = Arr(<<4>>, <<1, 0, 1, 0>>)

\* undo_reshape with a list as the shape to restore, as the only call
C15_ReshapeCase ==
    /\ Len(hist) = 1
    /\ hist[1].op = "undo_reshape"
    /\ ~hist[1].arg.old_shape.scalar

\* undo_rerank as the only call
C15_RerankCase ==
    /\ Len(hist) = 1
    /\ hist[1].op = "undo_rerank"

\* the shape undo_rerank is to restore: for a rank r >= 0 the axes of the
\* original shape but its last r, then the axes of the array but its first
\* (or, if r + 1 is above the original rank by more, that many); for a
\* negative rank the first |r| axes of the original shape, then the axes of
\* the array but its first
C15_ToRestore ==
    LET r == hist[1].arg.rank
        sh == hist[1].arg.orig_shape
        n == Len(sh)
        cut == IF r + 1 - n > 1 THEN r + 1 - n ELSE 1
    IN  IF r >= 0
        THEN SubSeq(sh, 1, IF n > r THEN n - r ELSE 0) \o SubSeq(orig.shape, cut + 1, Len(orig.shape))
        ELSE SubSeq(sh, 1, IF -r < n THEN -r ELSE n) \o SubSeq(orig.shape, 2, Len(orig.shape))

\* what undo_reshape does, which C15 states and the code does alike
C15_Reshape ==
    C15_ReshapeCase =>
        IF Product(hist[1].arg.old_shape.v) # Len(orig.data)
        THEN hist[1].st = "err" /\ arr = orig
        ELSE hist[1].st = "ok" /\ arr = Arr(hist[1].arg.old_shape.v, orig.data)

C16_FailsAtomically ==
    (/\ Len(hist) = 1
     /\ hist[1].op \in {"reshape", "rerank", "rotate"}
     /\ hist[1].st = "err") => arr = orig

\* a rotate at depth 2 by a list of two offsets failed on an array of shape
\* [1,3] and left it with the shape [3]
C16_Witness ==
    /\ Len(hist) = 1
    /\ hist[1].op = "rotate"
    /\ hist[1].st = "err"
    /\ hist[1].arg.depth = 2
    /\ hist[1].arg.by_depth = 1
    /\ hist[1].arg.by.shape = <<2>>
    /\ orig.shape = <<1, 3>>
    /\ arr = Arr(<<3>>, orig.data)

\* C17: windows without a fill value, on any array and with any list of
\* sizes, returns an error or an array whose data has as many elements as
\* its shape asks for; it does not panic on an index out of range or on a
\* subtraction below zero.
C17_WindowsTotal ==
    (/\ Len(hist) = 1
     /\ hist[1].op = "windows"
     /\ hist[1].arg.fill = NoFill) =>
        /\ hist[1].st \in {"ok", "err"}
        /\ hist[1].st = "ok" => ValidShape(arr)

\* windows of size 1 along the first axis of an array of shape [2,0]
\* panicked
C17_Witness ==
    /\ Len(hist) = 1
    /\ hist[1].op = "windows"
    /\ hist[1].arg.fill = NoFill
    /\ hist[1].arg.sizes = <<1>>
    /\ orig = Arr(<<2, 0>>, <<>>)
    /\ hist[1].st = "panic"

\* index_of ran first, between a needle and a haystack of the same rank
C18_Case ==
    /\ Len(hist) = 1
    /\ hist[1].op = "index_of"
    /\ rank(hist[1].arg.needle) = rank(arr)

\* C18 as stated: at equal rank index_of succeeds with one entry per needle
\* row, the position of the first haystack row equal to the needle row (same
\* shape, same elements), or the haystack's row count when no haystack row
\* is equal.
C18_AsStated ==
    C18_Case =>
        LET needle == hist[1].arg.needle
            out == hist[1].out
        IN  /\ hist[1].st = "ok"
            /\ Len(out.data) = row_count(needle)
            /\ \A i \in 1..row_count(needle) :
                    LET eq == {j \in 1..row_count(arr) : rows(arr)[j] = rows(needle)[i]}
                    IN  IF eq = {} THEN out.data[i] = row_count(arr)
                        ELSE /\ out.data[i] + 1 \in eq
                             /\ \A j \in eq : out.data[i] + 1 <= j

\* C18: at equal rank index_of succeeds with one entry per needle row, the
\* position of the first haystack row whose elements, read in row-major
\* order, are those of the needle row, whatever the shapes of the two rows,
\* or the haystack's row count when there is no such haystack row.
C18_FirstRowWithSameElements ==
    C18_Case =>
        LET needle == hist[1].arg.needle
            out == hist[1].out
        IN  /\ hist[1].st = "ok"
            /\ out.shape = Take(needle.shape, 1)
            /\ Len(out.data) = row_count(needle)
            /\ \A i \in 1..row_count(needle) :
                    LET eq == {j \in 1..row_count(arr) :
                                    row_slice(arr, j - 1) = row_slice(needle, i - 1)}
                    IN  IF eq = {} THEN out.data[i] = row_count(arr)
                        ELSE /\ out.data[i] + 1 \in eq
                             /\ \A j \in eq : out.data[i] + 1 <= j

\* the needle's rows are columns of two elements, the haystack's rows are
\* lines of two elements: the first needle row is found at position 1 and
\* the second at position 0
C18_Witness ==
    /\ C18_Case
    /\ hist[1].st = "ok"
    /\ hist[1].arg.needle.shape = <<2, 2, 1>>
    /\ hist[1].arg.needle.data = <<1, 0, 0, 1>>
    /\ arr = Arr(<<2, 1, 2>>, <<0, 1, 1, 0>>)
    /\ hist[1].out = Arr(<<2>>, <<1, 0>>)

\* mask ran first and succeeded
C19_Case ==
    /\ Len(hist) = 1
    /\ hist[1].op = "mask"
    /\ hist[1].st = "ok"

\* the flat haystack indices (0-based) of the needle-shaped block at the
\* flat position p; -1 is among them where the block leaves the haystack
C19_Block(p) ==
    LET needle == hist[1].arg.needle
        shape == Fill(1, rank(arr) - rank(needle)) \o needle.shape
        at == flat_to_dims(arr.shape, p)
    IN  {dims_to_flat(arr.shape,
                      [i \in 1..rank(arr) |-> at[i] + flat_to_dims(shape, j)[i]]) :
            j \in 0..(element_count(needle) - 1)}

\* the haystack holds the needle's elements in the block at position p
C19_Equal(p) ==
    LET needle == hist[1].arg.needle
        shape == Fill(1, rank(arr) - rank(needle)) \o needle.shape
        at == flat_to_dims(arr.shape, p)
    IN  \A j \in 0..(element_count(needle) - 1) :
            LET k == dims_to_flat(arr.shape,
                        [i \in 1..rank(arr) |-> at[i] + flat_to_dims(shape, j)[i]])
            IN  k >= 0 /\ arr.data[k + 1] = needle.data[j + 1]

\* the cells that carry the label l, and the first of them
C19_Labelled(l) == {k \in 0..(element_count(arr) - 1) : hist[1].out.data[k + 1] = l}
C19_Pos(l) == CHOOSE k \in C19_Labelled(l) : \A m \in C19_Labelled(l) : k <= m

\* C19: the result of mask has the haystack's shape; its labels are 1..N
\* without a gap; the cells of each label are one needle-shaped block of
\* the haystack that holds the needle's elements (so no cell has two
\* labels); the blocks are numbered in the row-major order of their
\* positions; and a position is the position of a label exactly when its
\* block holds the needle's elements and none of its cells carries the
\* label of a block at an earlier position.  An empty needle labels nothing.
C19_MaskLabels ==
    C19_Case =>
        LET needle == hist[1].arg.needle
            out == hist[1].out
            cells == 0..(element_count(arr) - 1)
            labels == {out.data[k + 1] : k \in cells} \ {0}
            N == Cardinality(labels)
        IN  /\ out.shape = arr.shape
            /\ Len(out.data) = element_count(arr)
            /\ labels = 1..N
            /\ element_count(needle) = 0 => N = 0
            /\ \A l \in 1..N :
                    /\ C19_Labelled(l) = C19_Block(C19_Pos(l))
                    /\ C19_Equal(C19_Pos(l))
                    /\ l < N => C19_Pos(l) < C19_Pos(l + 1)
            /\ element_count(needle) > 0 =>
                    \A p \in cells :
                        (\E l \in 1..N : C19_Pos(l) = p)
                            <=> /\ C19_Equal(p)
                                /\ \A k \in C19_Block(p) :
                                        \/ out.data[k + 1] = 0
                                        \/ C19_Pos(out.data[k + 1]) >= p

\* the needle 0 0 in the haystack 0 0 0: the block at position 0 is
\* labelled 1, and the block at position 1, which holds the needle's
\* elements too, is passed over because its first cell is taken
C19_Witness ==
    /\ C19_Case
    /\ hist[1].arg.needle = Arr(<<2>>, <<0, 0>>)
    /\ arr = Arr(<<3>>, <<0, 0, 0>>)
    /\ hist[1].out = Arr(<<3>>, <<1, 1, 0>>)
    /\ C19_Equal(1)

\* progressive_index_of ran first, between a needle and a haystack of the
\* same rank
C20_Case ==
    /\ Len(hist) = 1
    /\ hist[1].op = "progressive_index_of"
    /\ rank(hist[1].arg.needle) = rank(arr)

\* C20: at equal rank progressive_index_of succeeds with one entry per
\* needle row; taking the needle rows in order, the entry is the smallest
\* index of a haystack row that equals the needle row and is not the entry
\* of an earlier needle row, or the haystack's row count when no such row
\* is left; so no two entries below the haystack's row count are the same.
C20_RowsConsumedOnce ==
    C20_Case =>
        LET needle == hist[1].arg.needle
            out == hist[1].out
        IN  /\ hist[1].st = "ok"
            /\ out.shape = Take(needle.shape, 1)
            /\ Len(out.data) = row_count(needle)
            /\ \A e \in 1..row_count(needle) :
                    LET left == {i \in 0..(row_count(arr) - 1) :
                                    /\ rows(arr)[i + 1] = rows(needle)[e]
                                    /\ \A d \in 1..(e - 1) : out.data[d] # i}
                    IN  IF left = {} THEN out.data[e] = row_count(arr)
                        ELSE /\ out.data[e] \in left
                             /\ \A i \in left : out.data[e] <= i
            /\ \A d, e \in 1..row_count(needle) :
                    (d # e /\ out.data[d] < row_count(arr)) => out.data[d] # out.data[e]

\* the needle 0 0 in the haystack 0 1 0: the first needle row takes row 0,
\* the second passes over it and takes row 2
C20_Witness ==
    /\ C20_Case
    /\ hist[1].arg.needle = Arr(<<2>>, <<0, 0>>)
    /\ arr = Arr(<<3>>, <<0, 1, 0>>)
    /\ hist[1].out = Arr(<<2>>, <<0, 2>>)

\* a list-form reshape with exactly one placeholder ran first
C21_Case ==
    /\ Len(hist) = 1
    /\ hist[1].op = "reshape"
    /\ InfCount(hist[1].arg.dims) = 1

\* the position of the placeholder, and the product of the magnitudes of
\* the other specifiers
C21_At == CHOOSE i \in 1..Len(hist[1].arg.dims) : hist[1].arg.dims[i].inf
C21_P ==
    LET others == Ints(hist[1].arg.dims)
    IN  Product([i \in 1..Len(others) |-> Abs(others[i])])

\* C21: in a list-form reshape with exactly one placeholder, wherever the
\* placeholder stands and whatever the signs of the other specifiers, the
\* shape is derived without error exactly when the product p of the
\* magnitudes of the others is not 0, and the derived axis then has the
\* length floor(total / p) without a fill value and ceil(total / p) with
\* one.
C21_DerivedDimension ==
    C21_Case =>
        LET dims == hist[1].arg.dims
            fill_present == has_fill(hist[1].arg.fill)
            total == Product(orig.shape)
            got == derive_shape(orig.shape, dims, fill_present)
            want == IF fill_present THEN (total + C21_P - 1) \div C21_P
                    ELSE total \div C21_P
        IN  /\ got.st = "err" <=> C21_P = 0
            /\ C21_P = 0 => hist[1].st = "err"
            /\ C21_P # 0 => Abs(got.axes[C21_At]) = want
            /\ hist[1].st = "ok" => arr.shape[C21_At] = want

\* four elements reshaped to a leading placeholder by -2: the derived axis
\* has length 0 where floor(4 / 2) is 2
C21_Witness ==
    /\ C21_Case
    /\ orig = Arr(<<4>>, <<0, 1, 1, 0>>)
    /\ hist[1].arg.dims = <<Inf(FALSE), Dim(-2)>>
    /\ hist[1].arg.fill = NoFill
    /\ hist[1].st = "ok"
    /\ arr.shape = <<0, 2>>

\* undo_keep ran first, on counts that could be padded or cut to the
\* original's row count
C22_Case ==
    /\ Len(hist) = 1
    /\ hist[1].op = "undo_keep"
    /\ pad_keep_counts(hist[1].arg.counts, row_count(orig), hist[1].arg.afill).st = "ok"

\* the counts of that call after padding or cutting
C22_Counts == pad_keep_counts(hist[1].arg.counts, row_count(orig), hist[1].arg.afill).counts

\* C22: undo_keep fails whenever a count, after padding or cutting to the
\* original's row count, is neither 0 nor 1, be it above 1, negative or
\* not whole.
C22_RejectsNonBoolean ==
    C22_Case =>
        ((\E i \in 1..Len(C22_Counts) : C22_Counts[i] \notin {Whole(0), Whole(1)})
            => hist[1].st = "err")

\* undo_keep with the count -1 took the row of the kept array in place of
\* the original's row
C22_Witness ==
    /\ C22_Case
    /\ hist[1].arg.counts = <<Whole(-1)>>
    /\ hist[1].arg.afill = NoArrayFill
    /\ orig = Arr(<<1>>, <<0>>)
    /\ hist[1].arg.kept = Arr(<<1>>, <<1>>)
    /\ hist[1].st = "ok"
    /\ arr = Arr(<<1>>, <<1>>)

\* undo_keep ran first, with one count of 0 or 1 per row of the original
C23_Case ==
    /\ Len(hist) = 1
    /\ hist[1].op = "undo_keep"
    /\ Len(hist[1].arg.counts) = row_count(orig)
    /\ \A i \in 1..row_count(orig) : hist[1].arg.counts[i] \in {Whole(0), Whole(1)}

\* keep ran with one count of 0 or 1 per row, and undo_keep ran on its
\* result with the same counts and the original
C23_RoundTripCase ==
    /\ Len(hist) = 2
    /\ hist[1].op = "keep" /\ hist[1].st = "ok"
    /\ hist[2].op = "undo_keep"
    /\ Len(hist[1].arg.counts) = row_count(orig)
    /\ \A i \in 1..row_count(orig) : hist[1].arg.counts[i] \in {Whole(0), Whole(1)}

\* the number of ones among the first n counts of the first operation
C23_Ones(n) == Cardinality({j \in 1..n : hist[1].arg.counts[j] = Whole(1)})

\* undo_keep alone: it fails exactly when a row is to be pulled and the
\* kept array has fewer rows than there are ones or rows of another shape
\* than the original's rows; otherwise the result has the original's row
\* count, row i being the original's row i where the count is 0 and the
\* kept array's row number (ones before i) where the count is 1
C23_Rows ==
    C23_Case =>
        LET c == hist[1].arg.counts
            kept == hist[1].arg.kept
            n == row_count(orig)
            fails == /\ C23_Ones(n) > 0
                     /\ \/ row_count(kept) < C23_Ones(n)
                        \/ Skip(kept.shape, 1) # Skip(orig.shape, 1)
        IN  /\ hist[1].st = "err" <=> fails
            /\ hist[1].st \in {"ok", "err"}
            /\ hist[1].st = "ok" =>
                    /\ row_count(arr) = n
                    /\ \A i \in 1..n :
                            rows(arr)[i] = IF c[i] = Whole(0) THEN rows(orig)[i]
                                           ELSE rows(kept)[C23_Ones(i - 1) + 1]

\* C23 as stated: undo_keep with boolean counts rebuilds the rows as
\* described, and undo_keep(c, keep(c, original), original) is the original,
\* for every original.
C23_AsStated ==
    /\ C23_Rows
    /\ C23_RoundTripCase => (hist[2].st = "ok" /\ arr = orig)

\* C23: undo_keep with boolean counts rebuilds the rows as described, and
\* undo_keep(c, keep(c, original), original) succeeds and is the original
\* when the original has at least one row and is not a scalar; of a scalar
\* it is the list of the one element, and of an original without rows the
\* empty list of rank 1.
C23_RebuildsRows ==
    /\ C23_Rows
    /\ C23_RoundTripCase =>
            /\ hist[2].st = "ok"
            /\ arr = IF rank(orig) = 0 THEN Arr(<<1>>, orig.data)
                      ELSE IF row_count(orig) = 0 THEN Arr(<<0>>, <<>>)
                      ELSE orig

\* the counts 0 1 1 with the kept rows 1 and 0: the result keeps the
\* original's first row and takes the kept rows in their order
C23_Witness ==
    /\ C23_Case
    /\ orig = Arr(<<3>>, <<0, 0, 0>>)
    /\ hist[1].arg.counts = <<Whole(0), Whole(1), Whole(1)>>
    /\ hist[1].arg.kept = Arr(<<2>>, <<1, 0>>)
    /\ hist[1].st = "ok"
    /\ arr = Arr(<<3>>, <<0, 1, 0>>)

\* rotate ran first, with a fill value, by a list of at most one offset per
\* axis, on an array with no axis of length 0
C24_Case ==
    /\ Len(hist) = 1
    /\ hist[1].op = "rotate"
    /\ has_fill(hist[1].arg.fill)
    /\ hist[1].arg.depth = 0 /\ hist[1].arg.by_depth = 0
    /\ rank(hist[1].arg.by) = 1
    /\ Len(hist[1].arg.by.data) <= rank(orig)
    /\ \A i \in 1..rank(orig) : orig.shape[i] > 0

\* C24: with a fill value f, rotating by the offsets k succeeds and keeps
\* the shape; the element at an index is the source element at the index
\* plus k along the leading axes when that lies inside every axis, and f
\* when it does not: nothing wraps around, whatever the sign and the
\* magnitude of the offsets.
C24_ShiftWithFill ==
    C24_Case =>
        LET k == hist[1].arg.by.data
            f == hist[1].arg.fill[1]
            sh == orig.shape
        IN  /\ hist[1].st = "ok"
            /\ arr.shape = sh
            /\ Len(arr.data) = Len(orig.data)
            /\ \A p \in 0..(Len(orig.data) - 1) :
                    LET idx == CoordsOf(sh, p)
                        src == [i \in 1..Len(sh) |->
                                    IF i <= Len(k) THEN idx[i] + k[i] ELSE idx[i]]
                        inside == \A i \in 1..Len(sh) : src[i] >= 0 /\ src[i] < sh[i]
                    IN  arr.data[p + 1] = IF inside THEN orig.data[FlatOf(sh, src) + 1]
                                          ELSE f

\* a 2 by 2 array of ones shifted by -1 along the rows and by 1 along the
\* columns: the element that was at row 0, column 1 is at row 1, column 0,
\* and all else is the fill value 0
C24_Witness ==
    /\ C24_Case
    /\ orig = Arr(<<2, 2>>, <<1, 1, 1, 1>>)
    /\ hist[1].arg.by.data = <<-1, 1>>
    /\ hist[1].arg.fill = <<0>>
    /\ arr = Arr(<<2, 2>>, <<0, 0, 1, 0>>)

\* rotate ran first, at depth 0, by a list of offsets
C25_Case ==
    /\ Len(hist) = 1
    /\ hist[1].op = "rotate"
    /\ hist[1].arg.depth = 0 /\ hist[1].arg.by_depth = 0
    /\ rank(hist[1].arg.by) = 1

\* C25 as stated: rotate fails exactly when, at some level of the
\* recursion over the axes, the offsets left for that level are more than
\* the length of the axis rotated at that level.
C25_AsStated ==
    C25_Case =>
        LET m == Len(hist[1].arg.by.data)
        IN  hist[1].st = "err" <=>
                \E j \in 1..Min(m, rank(orig)) : m - j + 1 > orig.shape[j]

\* C25: rotate of an array that has elements by a list that has offsets
\* fails exactly when there are more offsets than the array has axes,
\* whatever the lengths of the axes; an array without elements, or a list
\* without offsets, is left as it is without an error.
C25_OffsetsAgainstRank ==
    C25_Case =>
        LET m == Len(hist[1].arg.by.data)
        IN  /\ hist[1].st \in {"ok", "err"}
            /\ hist[1].st = "err" <=>
                    (m > rank(orig) /\ m > 0 /\ element_count(orig) > 0)
            /\ (m = 0 \/ element_count(orig) = 0) => arr = orig

\* two offsets on an array of shape [1,2]: more than the length of the
\* first axis, as many as there are axes; the rotation took place
C25_Witness ==
    /\ C25_Case
    /\ hist[1].arg.fill = NoFill
    /\ orig = Arr(<<1, 2>>, <<0, 1>>)
    /\ hist[1].arg.by.data = <<0, 1>>
    /\ hist[1].st = "ok"
    /\ arr = Arr(<<1, 2>>, <<1, 0>>)

\* rotate ran first at depth 0 with an offset array aligned at depth 1 whose
\* rows are empty: depth_slices deepened the array by the offset array's
\* leading dimension and had no slice to rotate
C26_Case ==
    /\ Len(hist) = 1
    /\ hist[1].op = "rotate"
    /\ hist[1].arg.depth = 0 /\ hist[1].arg.by_depth = 1
    /\ rank(hist[1].arg.by) = 2
    /\ hist[1].arg.by.shape[1] > 0 /\ hist[1].arg.by.shape[2] = 0

\* C26: where depth_slices deepens the shallower operand by a leading
\* dimension d, the operand then has the shape [d] ++ old shape and each of
\* its d leading slices is a copy of the whole buffer it had before.
C26_DeepenTiles ==
    C26_Case =>
        LET d == hist[1].arg.by.shape[1]
            n == Len(orig.data)
        IN  /\ hist[1].st = "ok"
            /\ arr.shape = <<d>> \o orig.shape
            /\ Len(arr.data) = d * n
            /\ \A i \in 1..d : SubSeq(arr.data, (i - 1) * n + 1, i * n) = orig.data

\* the list 0 1 deepened by a leading dimension 2: the buffer is 0 0 1 1,
\* each row twice, and not 0 1 0 1
C26_Witness ==
    /\ C26_Case
    /\ orig = Arr(<<2>>, <<0, 1>>)
    /\ hist[1].arg.by.shape = <<2, 0>>
    /\ hist[1].st = "ok"
    /\ arr = Arr(<<2, 2>>, <<0, 0, 1, 1>>)

\* C27: while the work items of a matrix multiply are with the pool, the
\* result buffer has the length a_rows * b_rows * E; the item of row r has
\* written only indices from r * b_rows * E up to (r + 1) * b_rows * E; no
\* index was written by the items of two rows; and when every item is done
\* every index of the buffer has been written.
C27_WorkersWriteApart ==
    mm.on =>
        LET B == row_count(mm.b)
            E == prod_elems(arr, mm.b)
            cells == {w[2] : w \in mm.wrote}
        IN  /\ Len(mm.res) = row_count(arr) * B * E
            /\ \A w \in mm.wrote : w[1] * B * E <= w[2] /\ w[2] < (w[1] + 1) * B * E
            /\ Cardinality(cells) = Cardinality(mm.wrote)
            /\ (mm.next >= row_count(arr) /\ mm.at = {}) =>
                    cells = 0..(Len(mm.res) - 1)

\* two work items are in work at once, one of them for a row that is still
\* unwritten while the items of two later rows have written their cells
C27_Witness ==
    /\ mm.on
    /\ Cardinality(mm.at) = 2
    /\ \E x \in mm.at :
            /\ \A w \in mm.wrote : w[1] # x[1]
            /\ \E w, v \in mm.wrote : x[1] < w[1] /\ w[1] < v[1]

\* keep ran first with a bare scalar count that is a whole number below 0
C28_Case ==
    /\ Len(hist) = 1
    /\ hist[1].op = "keep_scalar"
    /\ IsWhole(hist[1].arg.count)
    /\ hist[1].arg.count.num < 0

\* C28: keep with the scalar count -n gives what keep with the count n
\* gives on the array with its rows in reverse order: row i of the result
\* is the row (row count - 1 - i div n) of the array, its elements in their
\* order, for arrays of every rank.
C28_NegativeKeepReversesRows ==
    C28_Case =>
        LET n == AsCount([num |-> -hist[1].arg.count.num, den |-> hist[1].arg.count.den])
            rc == row_count(orig)
        IN  /\ hist[1].st = "ok"
            /\ arr.shape = <<rc * n>> \o Skip(orig.shape, 1)
            /\ Len(arr.data) = rc * n * row_len(orig)
            /\ \A i \in 0..(rc * n - 1) :
                    row_slice(arr, i) = row_slice(orig, rc - 1 - (i \div n))

\* the one row 0 1 kept with the count -1 came out as 1 0
C28_Witness ==
    /\ C28_Case
    /\ hist[1].arg.count = Whole(-1)
    /\ orig = Arr(<<1, 2>>, <<0, 1>>)
    /\ hist[1].st = "ok"
    /\ arr = Arr(<<1, 2>>, <<1, 0>>)

\* windows ran first, without fill value, on an array with no axis of
\* length 0 and with every size between 1 and the length of its axis
C29_Case ==
    /\ Len(hist) = 1
    /\ hist[1].op = "windows"
    /\ hist[1].arg.fill = NoFill
    /\ Len(hist[1].arg.sizes) <= rank(orig)
    /\ \A i \in 1..rank(orig) : orig.shape[i] > 0
    /\ \A i \in 1..Len(hist[1].arg.sizes) :
            hist[1].arg.sizes[i] >= 1 /\ hist[1].arg.sizes[i] <= orig.shape[i]

\* the sizes of the window on every axis of the array: the sizes given,
\* then the whole of each axis without one
C29_Size == hist[1].arg.sizes \o Skip(orig.shape, Len(hist[1].arg.sizes))

\* how many corners, and how many cursors, each axis has
C29_Corners == [i \in 1..rank(orig) |-> orig.shape[i] - C29_Size[i] + 1]

\* the walk over the indices below the counts cs: the k-th index visited
\* is the k-th in row-major order, so each is visited once
C29_RowMajor(cs) ==
    LET walk == OdoAll([i \in 1..Len(cs) |-> cs[i] - 1])
    IN  /\ Len(walk) = Product(cs)
        /\ \A k \in 1..Len(walk) : walk[k] = flat_to_dims(cs, k - 1)

\* C29: on such an array the walk ends; the corners are visited once each
\* in row-major order and so are the cursors inside every corner; the k-th
\* write goes to index k - 1 and the writes are as many as the product of
\* the output shape, which is (extent - size + 1) for each sized axis, then
\* the sizes, then the axes without a size; the output element at
\* corner ++ cursor is the source element at corner + cursor.
C29_WindowsWalk ==
    C29_Case =>
        LET n == Len(hist[1].arg.sizes)
            r == rank(orig)
            corners == OdoAll([i \in 1..r |-> C29_Corners[i] - 1])
            currs == OdoAll([i \in 1..r |-> C29_Size[i] - 1])
        IN  /\ hist[1].st = "ok"
            /\ arr.shape = SubSeq(C29_Corners, 1, n) \o hist[1].arg.sizes
                                \o Skip(orig.shape, n)
            /\ C29_RowMajor(C29_Corners)
            /\ C29_RowMajor(C29_Size)
            /\ Len(corners) * Len(currs) = Product(arr.shape)
            /\ Len(arr.data) = Product(arr.shape)
            /\ \A w \in 1..Len(corners), c \in 1..Len(currs) :
                    LET k == (w - 1) * Len(currs) + c
                        out == SubSeq(corners[w], 1, n) \o currs[c]
                        src == [i \in 1..r |-> corners[w][i] + currs[c][i]]
                    IN  /\ dims_to_flat(arr.shape, out) = k - 1
                        /\ arr.data[k] = orig.data[dims_to_flat(orig.shape, src) + 1]

\* windows of two rows and one column of the array with the rows 0 0 and
\* 1 1: two corners along the second axis, each holding one column
C29_Witness ==
    /\ C29_Case
    /\ orig = Arr(<<2, 2>>, <<0, 0, 1, 1>>)
    /\ hist[1].arg.sizes = <<2, 1>>
    /\ arr = Arr(<<1, 2, 2, 1>>, <<0, 1, 0, 1>>)

\* unkeep ran first, on an array of rank 1 or more
C30_Case ==
    /\ Len(hist) >= 1
    /\ hist[1].op = "unkeep"
    /\ rank(orig) >= 1

\* the row of the original at which the run of the compressed row i
\* (from 0) begins, the counts being cs
C30_Start(cs, i) == Sum([j \in 1..i |-> AsCount(cs[j])])

\* C30: unkeep of an array of rank 1 or more, equal adjacent rows and no
\* rows at all included, succeeds and returns one row for every maximal
\* run of equal adjacent rows, in order, with the lengths of the runs as
\* counts: the counts are whole numbers of 1 or more and sum to the
\* original row count, there are as many counts as compressed rows, no two
\* adjacent compressed rows are equal, every row of a run equals its
\* compressed row, and keep with the counts on the compressed rows gives
\* the original array.
C30_UnkeepRuns ==
    C30_Case =>
        /\ hist[1].st = "ok"
        /\ Len(hist) = 1 =>
            LET cs == hist[1].out
            IN  /\ Len(cs) = row_count(arr)
                /\ Skip(arr.shape, 1) = Skip(orig.shape, 1)
                /\ Len(arr.data) = row_count(arr) * row_len(orig)
                /\ \A i \in 1..Len(cs) : IsWhole(cs[i]) /\ AsCount(cs[i]) >= 1
                /\ C30_Start(cs, Len(cs)) = row_count(orig)
                /\ NoAdjacentEqualRows(arr)
                /\ \A i \in 0..(Len(cs) - 1) :
                        \A r \in C30_Start(cs, i)..(C30_Start(cs, i + 1) - 1) :
                            row_slice(orig, r) = row_slice(arr, i)
        /\ (Len(hist) = 2 /\ hist[2].op = "keep") =>
                hist[2].st = "ok" /\ arr = orig

\* the list 0 0 1 1 was compressed to 0 1 with the counts 2 2, and keep
\* with those counts gave the list back
C30_Witness ==
    /\ C30_Case
    /\ Len(hist) = 2
    /\ hist[2].op = "keep"
    /\ hist[2].arg.counts = <<Whole(2), Whole(2)>>
    /\ hist[1].out = <<Whole(2), Whole(2)>>
    /\ orig = Arr(<<4>>, <<0, 0, 1, 1>>)
    /\ arr = orig

====
